---- MODULE Spec2Model ----
(***************************************************************************)
(* A model of the sparkscan-ws message layer: Topic <-> wire string         *)
(* conversion, JSON envelope normalization and typed message dispatch       *)
(* (crates/sparkscan-ws/src/types.rs).                                      *)
(*                                                                          *)
(* Text is modelled as a sequence of one-character strings, so that         *)
(* formatting and parsing are computed character by character.              *)
(***************************************************************************)
EXTENDS Integers, Sequences, FiniteSets, TLC

VARIABLES
    tpc,        \* position of the Topic scenario
    topic,      \* the Topic value built by the caller (NoTopic when a raw string is given)
    wire,       \* the wire string handed to Topic::from_str
    parsed,     \* outcome of Topic::from_str
    rewire,     \* as_str of the parsed Topic
    epc,        \* position of the envelope scenario
    inner,      \* the payload value the sender starts from
    shape,      \* how the sender wraps it
    body,       \* the bytes of the publication
    canon,      \* outcome of envelope normalization of body
    again,      \* outcome of extract_payload_data applied to canon's value
    dpc,        \* position of the decode scenario
    dtopic,     \* the subscription's Topic
    dinner,     \* the payload value the server starts from
    dshape,     \* how the server wraps it
    dbody,      \* the bytes of the publication
    dnow,       \* the wall clock read by the decode for dtopic
    dres,       \* outcome of parse_message_for_topic(dtopic, dbody)
    dmate,      \* a second Topic that is given the same bytes
    dmnow,      \* the wall clock read by the decode for dmate
    dmres,      \* outcome of parse_message_for_topic(dmate, dbody)
    fpc,        \* position of the fallback scenario
    fjson,      \* the JSON value handed to the Transaction arm
    fnow,       \* the wall clock read by the fallback builder
    fbuilt,     \* outcome of create_fallback_transaction_payload(fjson)
    farm,       \* outcome of the Transaction arm for fjson
    stopic,     \* the Topic of the subscription
    inbox,      \* the publications the transport delivers, in order
    seen,       \* how many of them the on_publication closure has handled
    calls,      \* the messages the on_message callback was invoked with
    logged,     \* the errors written to the log
    cin,        \* per invocation: its topic and bytes
    cpc,        \* per invocation: its position in parse_message_for_topic
    cval,       \* per invocation: its local json_value / payload_data
    cnow,       \* per invocation: the wall clock it read
    cres,       \* per invocation: its result
    cclock,     \* the wall clock
    cfg,        \* the SparkScanWsConfig the caller is building
    chain,      \* the builder calls made on it so far, in order
    client,     \* the SparkScanWsClient built from cfg, once built
    tcfg,       \* a second configuration, with other retry and timeout settings
    twin,       \* the SparkScanWsClient built from tcfg
    subs,       \* the subscription handles: topic, state of the inner subscription, holder
    mgr,        \* SubscriptionManager.subscriptions: wire string -> handle
    ret,        \* what the last get or remove returned
    psrc,       \* what is published: a typed message, or a body sent as it is
    ptopic,     \* the Topic of the receiving subscription
    pbytes,     \* the bytes on the channel
    pnow,       \* the wall clock read by the receiver's decode
    pres        \* outcome of parse_message_for_topic(ptopic, pbytes)

topicVars == <<tpc, topic, wire, parsed, rewire>>
envVars == <<epc, inner, shape, body, canon, again>>
decVars == <<dpc, dtopic, dinner, dshape, dbody, dnow, dres, dmate, dmnow, dmres>>
fbVars == <<fpc, fjson, fnow, fbuilt, farm>>
subVars == <<stopic, inbox, seen, calls, logged>>
ccVars == <<cin, cpc, cval, cnow, cres, cclock>>
clVars == <<cfg, chain, client, tcfg, twin>>
mgVars == <<subs, mgr, ret>>
pbVars == <<psrc, ptopic, pbytes, pnow, pres>>
vars == <<topicVars, envVars, decVars, fbVars, subVars, ccVars, clVars, mgVars, pbVars>>

(***************************************************************************)
(* Bounds                                                                   *)
(***************************************************************************)
\* longest Topic parameter / longest suffix appended to a raw input stem
MaxParamLen == 2
\* most keys of a payload object
MaxObjKeys == 2

(***************************************************************************)
(* Text helpers                                                             *)
(***************************************************************************)
SeqsUpTo(S, n) == UNION {[1..k -> S] : k \in 0..n}

\* str::strip_prefix: Some(rest) when s starts with prefix, None otherwise
starts_with(s, prefix) ==
    /\ Len(s) >= Len(prefix)
    /\ SubSeq(s, 1, Len(prefix)) = prefix

\* a strip_prefix that also eats the first character of the remainder
strip_prefix_greedy(s, prefix) == SubSeq(s, Len(prefix) + 2, Len(s))

strip_prefix(s, prefix) == SubSeq(s, Len(prefix) + 1, Len(s))

\* positions of '/' in s
SlashPositions(s) == {i \in 1..Len(s) : s[i] = "/"}

Min(S) == CHOOSE x \in S : \A y \in S : x <= y

Max(S) == CHOOSE x \in S : \A y \in S : x >= y

\* a splitn that cuts at the last '/' (rsplitn with the parts swapped back)
splitn2_last(s) ==
    IF SlashPositions(s) = {} THEN <<s>>
    ELSE LET i == Max(SlashPositions(s))
         IN  <<SubSeq(s, 1, i - 1), SubSeq(s, i + 1, Len(s))>>

\* a split with no limit on the number of parts, keeping the first two and
\* the count
split_all(s) ==
    IF SlashPositions(s) = {} THEN <<s>>
    ELSE IF Cardinality(SlashPositions(s)) = 1
        THEN LET i == Min(SlashPositions(s))
             IN  <<SubSeq(s, 1, i - 1), SubSeq(s, i + 1, Len(s))>>
    ELSE LET i == Min(SlashPositions(s))
             j == Min(SlashPositions(s) \ {i})
         IN  <<SubSeq(s, 1, i - 1), SubSeq(s, i + 1, j - 1), SubSeq(s, j + 1, Len(s))>>

\* str::splitn(2, '/'): at most two parts, split at the first '/'
splitn2(s) ==
    IF SlashPositions(s) = {} THEN <<s>>
    ELSE LET i == Min(SlashPositions(s))
         IN  <<SubSeq(s, 1, i - 1), SubSeq(s, i + 1, Len(s))>>

(***************************************************************************)
(* Topic (types.rs, enum Topic)                                             *)
(***************************************************************************)
\* the literals of the parameterless topics
Lit ==
    [balances |-> <<"b", "a", "l", "a", "n", "c", "e", "s">>,
     token_balances |-> <<"t", "o", "k", "e", "n", "_", "b", "a", "l", "a", "n", "c", "e", "s">>,
     token_prices |-> <<"t", "o", "k", "e", "n", "_", "p", "r", "i", "c", "e", "s">>,
     transactions |-> <<"t", "r", "a", "n", "s", "a", "c", "t", "i", "o", "n", "s">>,
     tokens |-> <<"t", "o", "k", "e", "n", "s">>]

\* the path prefixes of the parameterized topics
Pfx ==
    [BalanceNetwork |-> <<"/", "b", "a", "l", "a", "n", "c", "e", "/", "n", "e", "t", "w", "o", "r", "k", "/">>,
     BalanceAddress |-> <<"/", "b", "a", "l", "a", "n", "c", "e", "/", "a", "d", "d", "r", "e", "s", "s", "/">>,
     TokenBalanceNetwork |-> <<"/", "t", "o", "k", "e", "n", "_", "b", "a", "l", "a", "n", "c", "e", "/", "n", "e", "t", "w", "o", "r", "k", "/">>,
     TokenBalanceIdentifier |-> <<"/", "t", "o", "k", "e", "n", "_", "b", "a", "l", "a", "n", "c", "e", "/", "i", "d", "e", "n", "t", "i", "f", "i", "e", "r", "/">>,
     TokenBalanceAddress |-> <<"/", "t", "o", "k", "e", "n", "_", "b", "a", "l", "a", "n", "c", "e", "/", "a", "d", "d", "r", "e", "s", "s", "/">>,
     TokenPriceNetwork |-> <<"/", "t", "o", "k", "e", "n", "_", "p", "r", "i", "c", "e", "/", "n", "e", "t", "w", "o", "r", "k", "/">>,
     TokenPriceIdentifier |-> <<"/", "t", "o", "k", "e", "n", "_", "p", "r", "i", "c", "e", "/", "i", "d", "e", "n", "t", "i", "f", "i", "e", "r", "/">>,
     TransactionNetwork |-> <<"/", "t", "r", "a", "n", "s", "a", "c", "t", "i", "o", "n", "/", "n", "e", "t", "w", "o", "r", "k", "/">>,
     TransactionIn |-> <<"/", "t", "r", "a", "n", "s", "a", "c", "t", "i", "o", "n", "/", "i", "n", "/">>,
     TransactionOut |-> <<"/", "t", "r", "a", "n", "s", "a", "c", "t", "i", "o", "n", "/", "o", "u", "t", "/">>,
     TokenIdentifier |-> <<"/", "t", "o", "k", "e", "n", "/", "i", "d", "e", "n", "t", "i", "f", "i", "e", "r", "/">>,
     TokenNetwork |-> <<"/", "t", "o", "k", "e", "n", "/", "n", "e", "t", "w", "o", "r", "k", "/">>,
     TokenIssuer |-> <<"/", "t", "o", "k", "e", "n", "/", "i", "s", "s", "u", "e", "r", "/">>]

\* the variants of enum Topic, by number of String parameters
Tags0 == {"Balances", "TokenBalances", "TokenPrices", "Transactions", "Tokens"}
Tags1 == {"BalanceNetwork", "BalanceAddress",
          "TokenBalanceNetwork", "TokenBalanceIdentifier", "TokenBalanceAddress",
          "TokenPriceNetwork", "TokenPriceIdentifier",
          "TransactionNetwork",
          "TokenIdentifier", "TokenNetwork", "TokenIssuer"}
Tags2 == {"TransactionIn", "TransactionOut"}

T0(tag) == [tag |-> tag, args |-> <<>>]
T1(tag, a) == [tag |-> tag, args |-> <<a>>]
T2(tag, a, b) == [tag |-> tag, args |-> <<a, b>>]

\* the characters a Topic parameter is drawn from: an ordinary one and the separator
ParamChars == {"m", "/"}
Params == SeqsUpTo(ParamChars, MaxParamLen)

Topics ==
    {T0(tag) : tag \in Tags0}
    \cup {T1(tag, a) : tag \in Tags1, a \in Params}
    \cup {T2(tag, a, b) : tag \in Tags2, a \in Params, b \in Params}

NoTopic == [tag |-> "none", args |-> <<>>]

\* Topic::as_str
as_str(t) ==
    CASE t.tag = "Balances" -> Lit.balances
      [] t.tag = "BalanceNetwork" -> Pfx.BalanceNetwork \o t.args[1]
      [] t.tag = "BalanceAddress" -> Pfx.BalanceAddress \o t.args[1]
      [] t.tag = "TokenBalances" -> Lit.token_balances
      [] t.tag = "TokenBalanceNetwork" -> Pfx.TokenBalanceNetwork \o t.args[1]
      [] t.tag = "TokenBalanceIdentifier" -> Pfx.TokenBalanceIdentifier \o t.args[1]
      [] t.tag = "TokenBalanceAddress" -> Pfx.TokenBalanceAddress \o t.args[1]
      [] t.tag = "TokenPrices" -> Lit.token_prices
      [] t.tag = "TokenPriceNetwork" -> Pfx.TokenPriceNetwork \o t.args[1]
      [] t.tag = "TokenPriceIdentifier" -> Pfx.TokenPriceIdentifier \o t.args[1]
      [] t.tag = "Transactions" -> Lit.transactions
      [] t.tag = "TransactionNetwork" -> Pfx.TransactionNetwork \o t.args[1]
      [] t.tag = "TransactionIn" -> Pfx.TransactionIn \o t.args[1] \o <<"/">> \o t.args[2]
      [] t.tag = "TransactionOut" -> Pfx.TransactionOut \o t.args[1] \o <<"/">> \o t.args[2]
      [] t.tag = "Tokens" -> Lit.tokens
      [] t.tag = "TokenIdentifier" -> Pfx.TokenIdentifier \o t.args[1]
      [] t.tag = "TokenNetwork" -> Pfx.TokenNetwork \o t.args[1]
      [] t.tag = "TokenIssuer" -> Pfx.TokenIssuer \o t.args[1]

\* outcomes of Topic::from_str: it returns a Topic or panics (its type has no error value)
Returned(t) == [kind |-> "topic", topic |-> t]
Panicked == [kind |-> "panic", topic |-> NoTopic]
NotCalled == [kind |-> "none", topic |-> NoTopic]

\* a two-parameter arm that builds TransactionIn whatever the prefix was
from_str_two_in(tag, rest) ==
    LET parts == splitn2(rest)
    IN  IF Len(parts) = 2 THEN [kind |-> "topic", topic |-> T2("TransactionIn", parts[1], parts[2])]
        ELSE [kind |-> "panic", topic |-> NoTopic]

\* the two-parameter arms of Topic::from_str (TransactionIn, TransactionOut)
from_str_two(tag, rest) ==
    LET parts == splitn2(rest)
    IN  IF Len(parts) = 2 THEN Returned(T2(tag, parts[1], parts[2])) ELSE Panicked

\* Topic::from_str
from_str(s) ==
    IF s = Lit.balances THEN Returned(T0("Balances"))
    ELSE IF s = Lit.token_balances THEN Returned(T0("TokenBalances"))
    ELSE IF s = Lit.token_prices THEN Returned(T0("TokenPrices"))
    ELSE IF s = Lit.transactions THEN Returned(T0("Transactions"))
    ELSE IF s = Lit.tokens THEN Returned(T0("Tokens"))
    ELSE IF starts_with(s, Pfx.BalanceNetwork)
        THEN Returned(T1("BalanceNetwork", strip_prefix(s, Pfx.BalanceNetwork)))
    ELSE IF starts_with(s, Pfx.BalanceAddress)
        THEN Returned(T1("BalanceAddress", strip_prefix(s, Pfx.BalanceAddress)))
    ELSE IF starts_with(s, Pfx.TokenBalanceNetwork)
        THEN Returned(T1("TokenBalanceNetwork", strip_prefix(s, Pfx.TokenBalanceNetwork)))
    ELSE IF starts_with(s, Pfx.TokenBalanceIdentifier)
        THEN Returned(T1("TokenBalanceIdentifier", strip_prefix(s, Pfx.TokenBalanceIdentifier)))
    ELSE IF starts_with(s, Pfx.TokenBalanceAddress)
        THEN Returned(T1("TokenBalanceAddress", strip_prefix(s, Pfx.TokenBalanceAddress)))
    ELSE IF starts_with(s, Pfx.TokenPriceNetwork)
        THEN Returned(T1("TokenPriceNetwork", strip_prefix(s, Pfx.TokenPriceNetwork)))
    ELSE IF starts_with(s, Pfx.TokenPriceIdentifier)
        THEN Returned(T1("TokenPriceIdentifier", strip_prefix(s, Pfx.TokenPriceIdentifier)))
    ELSE IF starts_with(s, Pfx.TransactionNetwork)
        THEN Returned(T1("TransactionNetwork", strip_prefix(s, Pfx.TransactionNetwork)))
    ELSE IF starts_with(s, Pfx.TransactionIn)
        THEN from_str_two("TransactionIn", strip_prefix(s, Pfx.TransactionIn))
    ELSE IF starts_with(s, Pfx.TransactionOut)
        THEN from_str_two("TransactionOut", strip_prefix(s, Pfx.TransactionOut))
    ELSE IF starts_with(s, Pfx.TokenIdentifier)
        THEN Returned(T1("TokenIdentifier", strip_prefix(s, Pfx.TokenIdentifier)))
    ELSE IF starts_with(s, Pfx.TokenNetwork)
        THEN Returned(T1("TokenNetwork", strip_prefix(s, Pfx.TokenNetwork)))
    ELSE IF starts_with(s, Pfx.TokenIssuer)
        THEN Returned(T1("TokenIssuer", strip_prefix(s, Pfx.TokenIssuer)))
    ELSE Panicked

(***************************************************************************)
(* Raw strings a caller may hand to Topic::from_str: the literals, the     *)
(* prefixes and some near misses, each followed by a short suffix.          *)
(***************************************************************************)
Literals == {Lit.balances, Lit.token_balances, Lit.token_prices, Lit.transactions, Lit.tokens}

Prefixes1 == {Pfx.BalanceNetwork, Pfx.BalanceAddress, Pfx.TokenBalanceNetwork,
              Pfx.TokenBalanceIdentifier, Pfx.TokenBalanceAddress, Pfx.TokenPriceNetwork,
              Pfx.TokenPriceIdentifier, Pfx.TransactionNetwork, Pfx.TokenIdentifier,
              Pfx.TokenNetwork, Pfx.TokenIssuer}
Prefixes2 == {Pfx.TransactionIn, Pfx.TransactionOut}

NearMisses == {
    <<>>,
    <<"n", "o", "t", "-", "a", "-", "r", "e", "a", "l", "-", "t", "o", "p", "i", "c">>,
    <<"u", "n", "k", "n", "o", "w", "n", "_", "t", "o", "p", "i", "c">>,
    <<"b", "a", "l", "a", "n", "c", "e">>,
    <<"/", "b", "a", "l", "a", "n", "c", "e", "/">>,
    <<"/", "t", "r", "a", "n", "s", "a", "c", "t", "i", "o", "n", "/">>,
    <<"/", "t", "r", "a", "n", "s", "a", "c", "t", "i", "o", "n", "/", "i", "n">>,
    <<"/", "t", "o", "k", "e", "n", "/">>,
    <<"/", "t", "o", "k", "e", "n", "_", "b", "a", "l", "a", "n", "c", "e", "/", "n", "e", "t", "w", "o", "r">> }

TopicInputs ==
    {stem \o suffix : stem \in Literals \cup Prefixes1 \cup Prefixes2 \cup NearMisses,
                      suffix \in Params}

(***************************************************************************)
(* JSON values (serde_json::Value) and their text form                      *)
(***************************************************************************)
JNull == [t |-> "null"]
JBool(b) == [t |-> "bool", b |-> b]
JNum(n) == [t |-> "num", n |-> n]
JStr(s) == [t |-> "str", s |-> s]
JArr(a) == [t |-> "arr", a |-> a]
\* an object is a map from key (text) to value
JObj(o) == [t |-> "obj", o |-> o]

EmptyMap == <<>>

is_string(v) == v.t = "str"
is_object(v) == v.t = "obj"

\* Value::get(key): Some(member) of an object that has the key, None otherwise
has_key(v, key) == is_object(v) /\ key \in DOMAIN v.o
get(v, key) == v.o[key]

DigitChars == <<"0", "1", "2", "3", "4", "5", "6", "7", "8", "9">>
IsDigit(c) == \E i \in 1..10 : DigitChars[i] = c
DigitValue(c) == (CHOOSE i \in 1..10 : DigitChars[i] = c) - 1

\* byte order of the characters that occur in object keys
KeyChars == <<"_", "a", "b", "c", "d", "e", "f", "g", "h", "i", "j", "k", "l", "m",
              "n", "o", "p", "q", "r", "s", "t", "u", "v", "w", "x", "y", "z">>
Code(c) == CHOOSE i \in 1..Len(KeyChars) : KeyChars[i] = c

RECURSIVE LexLess(_, _)
LexLess(a, b) ==
    IF a = <<>> THEN b # <<>>
    ELSE IF b = <<>> THEN FALSE
    ELSE IF a[1] = b[1] THEN LexLess(Tail(a), Tail(b))
    ELSE Code(a[1]) < Code(b[1])

\* the keys of a map in the order the map iterates them (sorted)
RECURSIVE SortedKeys(_)
SortedKeys(S) ==
    IF S = {} THEN <<>>
    ELSE LET m == CHOOSE k \in S : \A o \in S \ {k} : LexLess(k, o)
         IN  <<m>> \o SortedKeys(S \ {m})

RECURSIVE Digits(_)
Digits(n) ==
    IF n < 10 THEN <<DigitChars[n + 1]>>
    ELSE Digits(n \div 10) \o <<DigitChars[(n % 10) + 1]>>

\* the concatenation of the sequences ss[lo..hi]
RECURSIVE Concat(_, _, _)
Concat(ss, lo, hi) ==
    IF lo > hi THEN <<>>
    ELSE IF lo = hi THEN ss[lo]
    ELSE LET mid == (lo + hi) \div 2
         IN  Concat(ss, lo, mid) \o Concat(ss, mid + 1, hi)

\* the string writer's escaping of '"' and '\'
escape(s) ==
    Concat([i \in 1..Len(s) |->
                IF s[i] \in {"\"", "\\"} THEN <<"\\", s[i]>> ELSE <<s[i]>>],
           1, Len(s))

Quoted(s) == <<"\"">> \o escape(s) \o <<"\"">>

\* serde_json::to_string
RECURSIVE to_string(_)
RECURSIVE write_items(_)
RECURSIVE write_members(_, _)
to_string(v) ==
    CASE v.t = "null" -> <<"n", "u", "l", "l">>
      [] v.t = "bool" -> IF v.b THEN <<"t", "r", "u", "e">>
                                ELSE <<"f", "a", "l", "s", "e">>
      [] v.t = "num" -> Digits(v.n)
      [] v.t = "str" -> Quoted(v.s)
      [] v.t = "arr" -> <<"[">> \o write_items(v.a) \o <<"]">>
      [] v.t = "obj" -> <<"{">> \o write_members(v.o, SortedKeys(DOMAIN v.o)) \o <<"}">>

write_items(a) ==
    IF a = <<>> THEN <<>>
    ELSE IF Len(a) = 1 THEN to_string(a[1])
    ELSE to_string(a[1]) \o <<",">> \o write_items(Tail(a))

write_members(o, keys) ==
    IF keys = <<>> THEN <<>>
    ELSE LET one == Quoted(keys[1]) \o <<":">> \o to_string(o[keys[1]])
         IN  IF Len(keys) = 1 THEN one
             ELSE one \o <<",">> \o write_members(o, Tail(keys))

(***************************************************************************)
(* The JSON reader (serde_json::from_str / from_slice): a parse step gives  *)
(* [ok, v, pos], pos being the position after what was read.                *)
(***************************************************************************)
\* F applied to the value of e, e being computed once
Bind(e, F(_)) == CHOOSE y \in {F(x) : x \in {e}} : TRUE

Fail == [ok |-> FALSE, v |-> JNull, pos |-> 0]
Got(v, pos) == [ok |-> TRUE, v |-> v, pos |-> pos]

IsWs(c) == c = " "

RECURSIVE SkipWs(_, _)
SkipWs(s, i) == IF i <= Len(s) /\ IsWs(s[i]) THEN SkipWs(s, i + 1) ELSE i

\* s holds word at position i
Holds(s, i, word) ==
    /\ i + Len(word) - 1 <= Len(s)
    /\ SubSeq(s, i, i + Len(word) - 1) = word

\* the length of the run of backslashes that ends just before position j,
\* within a string literal whose content starts at i
RECURSIVE BackslashRun(_, _, _)
BackslashRun(s, i, j) ==
    IF j - 1 >= i /\ s[j - 1] = "\\" THEN 1 + BackslashRun(s, i, j - 1) ELSE 0

\* position j is the second character of an escape
Escaped(s, i, j) == j > i /\ s[j - 1] = "\\" /\ BackslashRun(s, i, j) % 2 = 1

\* the characters of a string literal after its opening quote, up to the
\* first quote that is not escaped; the escapes read are those of '"', '\'
\* and '/'
read_str(s, i) ==
    LET closes(j) == s[j] = "\"" /\ ~Escaped(s, i, j)
        unit(j) == IF Escaped(s, i, j) THEN <<>>
                   ELSE IF s[j] = "\\" THEN <<s[j + 1]>>
                   ELSE <<s[j]>>
        upTo(e) ==
            IF \E j \in i..(e - 1) : /\ s[j] = "\\"
                                     /\ ~Escaped(s, i, j)
                                     /\ s[j + 1] \notin {"\"", "\\", "/"}
                THEN Fail
            ELSE IF \A j \in i..(e - 1) : s[j] # "\\"
                THEN Got(SubSeq(s, i, e - 1), e + 1)
            ELSE Got(Concat([k \in 1..(e - i) |-> unit(i + k - 1)], 1, e - i), e + 1)
    IN  IF ~\E j \in i..Len(s) : closes(j) THEN Fail
        ELSE Bind(CHOOSE j \in i..Len(s) : closes(j) /\ \A k \in i..(j - 1) : ~closes(k),
                  upTo)

\* the digits of a number after its first digit
RECURSIVE read_digits(_, _, _)
read_digits(s, i, n) ==
    IF i <= Len(s) /\ IsDigit(s[i])
    THEN read_digits(s, i + 1, 10 * n + DigitValue(s[i]))
    ELSE Got(JNum(n), i)

RECURSIVE read_value(_, _)
RECURSIVE read_items(_, _, _)
RECURSIVE read_members(_, _, _)

read_value(s, i0) ==
    LET i == SkipWs(s, i0)
        string(r) == IF r.ok THEN Got(JStr(r.v), r.pos) ELSE Fail
        j == SkipWs(s, i + 1)
    IN  IF i > Len(s) THEN Fail
        ELSE IF s[i] = "n"
            THEN IF Holds(s, i, <<"n", "u", "l", "l">>) THEN Got(JNull, i + 4) ELSE Fail
        ELSE IF s[i] = "t"
            THEN IF Holds(s, i, <<"t", "r", "u", "e">>) THEN Got(JBool(TRUE), i + 4) ELSE Fail
        ELSE IF s[i] = "f"
            THEN IF Holds(s, i, <<"f", "a", "l", "s", "e">>) THEN Got(JBool(FALSE), i + 5)
                 ELSE Fail
        ELSE IF s[i] = "\"" THEN Bind(read_str(s, i + 1), string)
        ELSE IF s[i] = "0"
            THEN IF i + 1 <= Len(s) /\ IsDigit(s[i + 1]) THEN Fail ELSE Got(JNum(0), i + 1)
        ELSE IF IsDigit(s[i]) THEN read_digits(s, i + 1, DigitValue(s[i]))
        ELSE IF s[i] = "["
            THEN IF j <= Len(s) /\ s[j] = "]" THEN Got(JArr(<<>>), j + 1)
                 ELSE read_items(s, j, <<>>)
        ELSE IF s[i] = "{"
            THEN IF j <= Len(s) /\ s[j] = "}" THEN Got(JObj(EmptyMap), j + 1)
                 ELSE read_members(s, j, EmptyMap)
        ELSE Fail

\* the elements of an array, from the position of an element on
read_items(s, i, acc) ==
    LET after(r) ==
            LET j == SkipWs(s, r.pos)
            IN  IF ~r.ok \/ j > Len(s) THEN Fail
                ELSE IF s[j] = "," THEN read_items(s, j + 1, Append(acc, r.v))
                ELSE IF s[j] = "]" THEN Got(JArr(Append(acc, r.v)), j + 1)
                ELSE Fail
    IN  Bind(read_value(s, i), after)

\* one member of an object, from the position of its key on: its name, its
\* value and the position of what follows it
read_member(s, i0) ==
    LET none == [ok |-> FALSE, k |-> <<>>, v |-> JNull, pos |-> 0]
        i == SkipWs(s, i0)
        name(k) ==
            LET c == SkipWs(s, k.pos)
                value(r) == IF r.ok THEN [ok |-> TRUE, k |-> k.v, v |-> r.v,
                                          pos |-> SkipWs(s, r.pos)]
                            ELSE none
            IN  IF ~k.ok \/ c > Len(s) \/ s[c] # ":" THEN none
                ELSE Bind(read_value(s, c + 1), value)
    IN  IF i > Len(s) \/ s[i] # "\"" THEN none
        ELSE Bind(read_str(s, i + 1), name)

\* the members of an object, from the position of a key on; a repeated key
\* keeps its last value
read_members(s, i, acc) ==
    LET after(m) ==
            IF ~m.ok \/ m.pos > Len(s) THEN Fail
            ELSE IF s[m.pos] = "," THEN read_members(s, m.pos + 1, (m.k :> m.v) @@ acc)
            ELSE IF s[m.pos] = "}" THEN Got(JObj((m.k :> m.v) @@ acc), m.pos + 1)
            ELSE Fail
    IN  Bind(read_member(s, i), after)

\* results of the fallible steps: Ok(value) or Err(kind)
Ok(v) == [ok |-> TRUE, v |-> v]
Err(kind) == [ok |-> FALSE, err |-> kind]

\* bytes that are no UTF-8 text (0xFF, 0xFE, 0xFD), each as one element
NonUtf8 == <<"FF", "FE", "FD">>
is_utf8(s) == \A i \in 1..Len(s) : \A j \in 1..Len(NonUtf8) : s[i] # NonUtf8[j]

\* serde_json::from_slice / from_str: UTF-8 text holding one value, then
\* nothing but whitespace
from_json(s) ==
    LET whole(r) == IF r.ok /\ SkipWs(s, r.pos) > Len(s) THEN Ok(r.v)
                    ELSE Err("SerializationError")
    IN  IF ~is_utf8(s) THEN Err("SerializationError")
        ELSE Bind(read_value(s, 1), whole)

\* tokio_centrifuge::utils::decode_json, as parse_message_for_topic wraps it
decode_json(data) ==
    LET map_err(r) == IF r.ok THEN r ELSE Err("InvalidMessageFormat")
    IN  Bind(from_json(data), map_err)


(***************************************************************************)
(* Envelope normalization (types.rs, extract_payload_data)                  *)
(***************************************************************************)
\* the JSON member names the code and the payload types use
Key ==
    [data |-> <<"d", "a", "t", "a">>,
     payload |-> <<"p", "a", "y", "l", "o", "a", "d">>,
     message |-> <<"m", "e", "s", "s", "a", "g", "e">>,
     type |-> <<"t", "y", "p", "e">>,
     id |-> <<"i", "d">>,
     address |-> <<"a", "d", "d", "r", "e", "s", "s">>,
     network |-> <<"n", "e", "t", "w", "o", "r", "k">>,
     soft_balance |-> <<"s", "o", "f", "t", "_", "b", "a", "l", "a", "n", "c", "e">>,
     hard_balance |-> <<"h", "a", "r", "d", "_", "b", "a", "l", "a", "n", "c", "e">>,
     processed_at |-> <<"p", "r", "o", "c", "e", "s", "s", "e", "d", "_", "a", "t">>,
     token_address |-> <<"t", "o", "k", "e", "n", "_", "a", "d", "d", "r", "e", "s", "s">>,
     balance |-> <<"b", "a", "l", "a", "n", "c", "e">>,
     price_sats |-> <<"p", "r", "i", "c", "e", "_", "s", "a", "t", "s">>,
     protocol |-> <<"p", "r", "o", "t", "o", "c", "o", "l">>,
     ticker |-> <<"t", "i", "c", "k", "e", "r">>,
     name |-> <<"n", "a", "m", "e">>,
     decimals |-> <<"d", "e", "c", "i", "m", "a", "l", "s">>,
     calculated_at |-> <<"c", "a", "l", "c", "u", "l", "a", "t", "e", "d", "_", "a", "t">>,
     status |-> <<"s", "t", "a", "t", "u", "s">>,
     amount_sats |-> <<"a", "m", "o", "u", "n", "t", "_", "s", "a", "t", "s">>,
     token_amount |-> <<"t", "o", "k", "e", "n", "_", "a", "m", "o", "u", "n", "t">>,
     from_identifier |-> <<"f", "r", "o", "m", "_", "i", "d", "e", "n", "t", "i", "f", "i", "e", "r">>,
     to_identifier |-> <<"t", "o", "_", "i", "d", "e", "n", "t", "i", "f", "i", "e", "r">>,
     bitcoin_txid |-> <<"b", "i", "t", "c", "o", "i", "n", "_", "t", "x", "i", "d">>,
     updated_at |-> <<"u", "p", "d", "a", "t", "e", "d", "_", "a", "t">>,
     expired_time |-> <<"e", "x", "p", "i", "r", "e", "d", "_", "t", "i", "m", "e">>,
     token_io_details |-> <<"t", "o", "k", "e", "n", "_", "i", "o", "_", "d", "e", "t", "a", "i", "l", "s">>,
     original |-> <<"o", "r", "i", "g", "i", "n", "a", "l">>,
     unmapped_fields |-> <<"u", "n", "m", "a", "p", "p", "e", "d", "_", "f", "i", "e", "l", "d", "s">>,
     custom |-> <<"c", "u", "s", "t", "o", "m">>]

\* a wrapper field handed on without decoding a string held in it
unwrap_field_raw(f) == Ok(f)

\* the string-or-value handling of a matched wrapper field
unwrap_field(f) == IF is_string(f) THEN from_json(f.s) ELSE Ok(f)

\* an extract_payload_data that looks for "payload" before "data"
extract_payload_first(v) ==
    IF is_string(v) THEN from_json(v.s)
    ELSE IF has_key(v, Key.payload) THEN unwrap_field(get(v, Key.payload))
    ELSE IF has_key(v, Key.data) THEN unwrap_field(get(v, Key.data))
    ELSE IF has_key(v, Key.message) THEN unwrap_field(get(v, Key.message))
    ELSE Ok(v)

\* an extract_payload_data without the string cases: a string is passed on
\* as it is
extract_no_string_layer(v) ==
    IF is_string(v) THEN Ok(v)
    ELSE IF has_key(v, Key.data) THEN Ok(get(v, Key.data))
    ELSE IF has_key(v, Key.payload) THEN Ok(get(v, Key.payload))
    ELSE IF has_key(v, Key.message) THEN Ok(get(v, Key.message))
    ELSE Ok(v)

\* an extract_payload_data that treats any "id" member as one more wrapper
extract_id_wrapper(v) ==
    IF is_string(v) THEN from_json(v.s)
    ELSE IF has_key(v, Key.data) THEN unwrap_field(get(v, Key.data))
    ELSE IF has_key(v, Key.payload) THEN unwrap_field(get(v, Key.payload))
    ELSE IF has_key(v, Key.message) THEN unwrap_field(get(v, Key.message))
    ELSE IF has_key(v, Key.id) THEN unwrap_field(get(v, Key.id))
    ELSE Ok(v)

\* an extract_payload_data that goes on stripping layers for as long as the
\* value it obtained is a string or carries a wrapper key
RECURSIVE extract_recursive(_)
extract_recursive(v) ==
    LET deeper(r) ==
            IF r.ok /\ (is_string(r.v) \/ has_key(r.v, Key.data)
                        \/ has_key(r.v, Key.payload) \/ has_key(r.v, Key.message))
            THEN extract_recursive(r.v)
            ELSE r
    IN  IF is_string(v) THEN Bind(from_json(v.s), deeper)
        ELSE IF has_key(v, Key.data) THEN Bind(unwrap_field(get(v, Key.data)), deeper)
        ELSE IF has_key(v, Key.payload) THEN Bind(unwrap_field(get(v, Key.payload)), deeper)
        ELSE IF has_key(v, Key.message) THEN Bind(unwrap_field(get(v, Key.message)), deeper)
        ELSE Ok(v)

\* an extract_payload_data that goes on to the next step when the string
\* held by the matched step does not decode
extract_falling_through(v) ==
    LET step(f, rest) == IF unwrap_field(f).ok THEN unwrap_field(f) ELSE rest
        last == IF has_key(v, Key.message)
                THEN step(get(v, Key.message), Ok(v)) ELSE Ok(v)
        third == IF has_key(v, Key.payload)
                 THEN step(get(v, Key.payload), last) ELSE last
        second == IF has_key(v, Key.data)
                  THEN step(get(v, Key.data), third) ELSE third
    IN  IF is_string(v) THEN step(v, Ok(v)) ELSE second

\* extract_payload_data
extract_payload_data(v) ==
    IF is_string(v) THEN from_json(v.s)
    ELSE IF has_key(v, Key.data) THEN unwrap_field(get(v, Key.data))
    ELSE IF has_key(v, Key.payload) THEN unwrap_field(get(v, Key.payload))
    ELSE IF has_key(v, Key.message) THEN unwrap_field(get(v, Key.message))
    ELSE Ok(v)

\* the first two steps of parse_message_for_topic: decode_json(data)?, then
\* extract_payload_data(json_value)?
normalize(data) ==
    LET extract(d) == IF d.ok THEN extract_payload_data(d.v) ELSE d
    IN  Bind(decode_json(data), extract)

(***************************************************************************)
(* Field names and enum strings of the payload types                        *)
(***************************************************************************)
\* the strings of the enum values, and the default id
Str ==
    [Unknown |-> <<"u", "n", "k", "n", "o", "w", "n">>,
     MAINNET |-> <<"M", "A", "I", "N", "N", "E", "T">>,
     REGTEST |-> <<"R", "E", "G", "T", "E", "S", "T">>,
     SparkToSpark |-> <<"s", "p", "a", "r", "k", "_", "t", "o", "_", "s", "p", "a", "r", "k">>,
     SparkToLightning |-> <<"s", "p", "a", "r", "k", "_", "t", "o", "_", "l", "i", "g", "h", "t", "n", "i", "n", "g">>,
     TokenMultiTransfer |-> <<"t", "o", "k", "e", "n", "_", "m", "u", "l", "t", "i", "_", "t", "r", "a", "n", "s", "f", "e", "r">>,
     Confirmed |-> <<"c", "o", "n", "f", "i", "r", "m", "e", "d">>,
     Pending |-> <<"p", "e", "n", "d", "i", "n", "g">>,
     Sent |-> <<"s", "e", "n", "t">>]

(***************************************************************************)
(* Typed values: Option, timestamps (chrono), the generated enums           *)
(***************************************************************************)
None == [some |-> FALSE]
Some(x) == [some |-> TRUE, v |-> x]

\* a member lookup that takes an empty string for a missing member
str_field_nonempty(obj, key) ==
    IF key \in DOMAIN obj /\ obj[key].t = "str" /\ obj[key].s # <<>>
    THEN Some(obj[key].s) ELSE None

\* a member lookup that renders a number as its decimal string
str_field_lenient(obj, key) ==
    IF key \in DOMAIN obj /\ obj[key].t = "str" THEN Some(obj[key].s)
    ELSE IF key \in DOMAIN obj /\ obj[key].t = "num" THEN Some(Digits(obj[key].n))
    ELSE None

\* obj.get(key).and_then(|v| v.as_str())
str_field(obj, key) ==
    IF key \in DOMAIN obj /\ obj[key].t = "str" THEN Some(obj[key].s) ELSE None

AllDigits(s, i, j) == \A k \in i..j : IsDigit(s[k])

RECURSIVE NumAt(_, _, _)
NumAt(s, i, j) == IF i > j THEN 0 ELSE NumAt(s, i, j - 1) * 10 + DigitValue(s[j])

\* the position after the run of digits that starts at i
RECURSIVE DigitsEnd(_, _)
DigitsEnd(s, i) == IF i <= Len(s) /\ IsDigit(s[i]) THEN DigitsEnd(s, i + 1) ELSE i

IsLeap(y) == (y % 4 = 0 /\ y % 100 # 0) \/ y % 400 = 0
DaysInMonth(y, m) ==
    IF m = 2 THEN (IF IsLeap(y) THEN 29 ELSE 28)
    ELSE IF m \in {4, 6, 9, 11} THEN 30 ELSE 31

\* days since 1970-01-01 of a civil date
DaysFromCivil(y0, m, d) ==
    LET y == IF m <= 2 THEN y0 - 1 ELSE y0
        era == y \div 400
        yoe == y - era * 400
        mp == IF m > 2 THEN m - 3 ELSE m + 9
        doy == (153 * mp + 2) \div 5 + d - 1
        doe == yoe * 365 + yoe \div 4 - yoe \div 100 + doy
    IN  era * 146097 + doe - 719468

\* the first nine fraction digits as nanoseconds
RECURSIVE FracNanos(_, _, _, _)
FracNanos(s, i, j, left) ==
    IF left = 0 THEN 0
    ELSE IF i > j THEN 0
    ELSE DigitValue(s[i]) * (10 ^ (left - 1)) + FracNanos(s, i + 1, j, left - 1)

\* a parse_from_rfc3339 that also takes a timestamp with no offset as UTC
parse_from_rfc3339_lenient(s) ==
    IF Len(s) >= 19 /\ AllDigits(s, 1, 4) /\ s[5] = "-" /\ AllDigits(s, 6, 7)
       /\ s[8] = "-" /\ AllDigits(s, 9, 10) /\ s[11] = "T" /\ AllDigits(s, 12, 13)
       /\ s[14] = ":" /\ AllDigits(s, 15, 16) /\ s[17] = ":" /\ AllDigits(s, 18, 19)
    THEN Some([secs |-> DaysFromCivil(NumAt(s, 1, 4), NumAt(s, 6, 7), NumAt(s, 9, 10)) * 86400
                        + NumAt(s, 12, 13) * 3600 + NumAt(s, 15, 16) * 60 + NumAt(s, 18, 19),
               nanos |-> 0])
    ELSE None

\* chrono::DateTime::parse_from_rfc3339(s), then with_timezone(&Utc):
\* YYYY-MM-DDTHH:MM:SS[.fraction](Z|+HH:MM|-HH:MM), as an instant
parse_from_rfc3339(s) ==
    IF ~(/\ Len(s) >= 20
         /\ AllDigits(s, 1, 4) /\ s[5] = "-" /\ AllDigits(s, 6, 7) /\ s[8] = "-"
         /\ AllDigits(s, 9, 10) /\ s[11] = "T" /\ AllDigits(s, 12, 13) /\ s[14] = ":"
         /\ AllDigits(s, 15, 16) /\ s[17] = ":" /\ AllDigits(s, 18, 19))
    THEN None
    ELSE LET y == NumAt(s, 1, 4)
             mo == NumAt(s, 6, 7)
             d == NumAt(s, 9, 10)
             h == NumAt(s, 12, 13)
             mi == NumAt(s, 15, 16)
             se == NumAt(s, 18, 19)
             hasFrac == s[20] = "."
             z == IF hasFrac THEN DigitsEnd(s, 21) ELSE 20
             fracOk == ~hasFrac \/ z > 21
             nanos == IF hasFrac THEN FracNanos(s, 21, z - 1, 9) ELSE 0
             utc == z = Len(s) /\ s[z] = "Z"
             numeric == /\ Len(s) = z + 5
                        /\ s[z] \in {"+", "-"}
                        /\ AllDigits(s, z + 1, z + 2) /\ s[z + 3] = ":"
                        /\ AllDigits(s, z + 4, z + 5)
                        /\ NumAt(s, z + 1, z + 2) <= 23 /\ NumAt(s, z + 4, z + 5) <= 59
             offset == IF utc THEN 0
                       ELSE (IF s[z] = "-" THEN -1 ELSE 1)
                            * (NumAt(s, z + 1, z + 2) * 3600 + NumAt(s, z + 4, z + 5) * 60)
             fieldsOk == /\ mo \in 1..12 /\ d >= 1 /\ d <= DaysInMonth(y, mo)
                         /\ h <= 23 /\ mi <= 59 /\ se <= 59
         IN  IF fracOk /\ z <= Len(s) /\ (utc \/ numeric) /\ fieldsOk
             THEN Some([secs |-> DaysFromCivil(y, mo, d) * 86400
                                 + h * 3600 + mi * 60 + se - offset,
                        nanos |-> nanos])
             ELSE None

\* <Network as FromStr>::from_str
parse_network(s) ==
    IF s = Str.MAINNET THEN Some("Mainnet")
    ELSE IF s = Str.REGTEST THEN Some("Regtest")
    ELSE None

\* <Type as FromStr>::from_str
parse_type(s) ==
    IF s = Str.SparkToSpark THEN Some("SparkToSpark")
    ELSE IF s = Str.SparkToLightning THEN Some("SparkToLightning")
    ELSE IF s = Str.TokenMultiTransfer THEN Some("TokenMultiTransfer")
    ELSE IF s = Str.Unknown THEN Some("Unknown")
    ELSE None

\* <Status as FromStr>::from_str
parse_status(s) ==
    IF s = Str.Confirmed THEN Some("Confirmed")
    ELSE IF s = Str.Pending THEN Some("Pending")
    ELSE IF s = Str.Sent THEN Some("Sent")
    ELSE None

unwrap_or(opt, default) == IF opt.some THEN opt.v ELSE default

(***************************************************************************)
(* The fallback transaction builder                                         *)
(***************************************************************************)
mapped_fields ==
    {Key.id, Key.network, Key.type, Key.status, Key.processed_at, Key.amount_sats,
     Key.token_amount, Key.token_address, Key.from_identifier, Key.to_identifier,
     Key.bitcoin_txid, Key.updated_at, Key.expired_time, Key.token_io_details}

\* a token_io_details map that leaves out a null token_io_details member
fallback_io_details_nonnull(obj) ==
    LET original == IF Key.token_io_details \in DOMAIN obj
                       /\ obj[Key.token_io_details] # JNull
                    THEN (Key.original :> obj[Key.token_io_details])
                    ELSE EmptyMap
        unmappedKeys == DOMAIN obj \ mapped_fields
        unmapped == [k \in unmappedKeys |-> obj[k]]
    IN  IF unmappedKeys # {}
        THEN (Key.unmapped_fields :> JObj(unmapped)) @@ original
        ELSE original

\* the token_io_details map of the fallback payload
fallback_io_details(obj) ==
    LET original == IF Key.token_io_details \in DOMAIN obj
                    THEN (Key.original :> obj[Key.token_io_details])
                    ELSE EmptyMap
        unmappedKeys == DOMAIN obj \ mapped_fields
        unmapped == [k \in unmappedKeys |-> obj[k]]
    IN  IF unmappedKeys # {}
        THEN (Key.unmapped_fields :> JObj(unmapped)) @@ original
        ELSE original

\* create_fallback_transaction_payload; now is the reading of Utc::now()
create_fallback_transaction_payload(json_data, now) ==
    IF ~is_object(json_data) THEN Err("InvalidMessageFormat")
    ELSE LET obj == json_data.o
             and_then(opt, F(_)) == IF opt.some THEN F(opt.v) ELSE None
             io == fallback_io_details(obj)
         IN  Ok([id |-> unwrap_or(str_field(obj, Key.id), Str.Unknown),
                 network |-> unwrap_or(and_then(str_field(obj, Key.network), parse_network),
                                       "Regtest"),
                 type_ |-> unwrap_or(and_then(str_field(obj, Key.type), parse_type), "Unknown"),
                 status |-> unwrap_or(and_then(str_field(obj, Key.status), parse_status),
                                      "Pending"),
                 processed_at |->
                     unwrap_or(and_then(str_field(obj, Key.processed_at), parse_from_rfc3339), now),
                 amount_sats |-> str_field(obj, Key.amount_sats),
                 token_amount |-> str_field(obj, Key.token_amount),
                 token_address |-> str_field(obj, Key.token_address),
                 from_identifier |-> str_field(obj, Key.from_identifier),
                 to_identifier |-> str_field(obj, Key.to_identifier),
                 bitcoin_txid |-> str_field(obj, Key.bitcoin_txid),
                 token_io_details |-> IF DOMAIN io = {} THEN None ELSE Some(io),
                 updated_at |-> and_then(str_field(obj, Key.updated_at), parse_from_rfc3339),
                 expired_time |-> and_then(str_field(obj, Key.expired_time), parse_from_rfc3339)])

(***************************************************************************)
(* The strict decoders generated from the JSON schemas                      *)
(* (serde_json::from_value::<...Payload>). The generated code is not part   *)
(* of the source tree; the field sets are those the tests and examples use. *)
(***************************************************************************)

valid_address(s) == starts_with(s, <<"s", "p", "1">>) \/ starts_with(s, <<"s", "p", "r", "t", "1">>)
valid_token_address(s) == starts_with(s, <<"b", "t", "k", "n", "1">>) \/ starts_with(s, <<"b", "t", "k", "n", "r", "t", "1">>)

\* whether a member value is accepted for a field of the given type
field_ok(type, val) ==
    CASE type = "string" -> val.t = "str"
      [] type = "address" -> val.t = "str" /\ valid_address(val.s)
      [] type = "token_address" -> val.t = "str" /\ valid_token_address(val.s)
      [] type = "network" -> val.t = "str" /\ parse_network(val.s).some
      [] type = "type" -> val.t = "str" /\ parse_type(val.s).some
      [] type = "status" -> val.t = "str" /\ parse_status(val.s).some
      [] type = "datetime" -> val.t = "str" /\ parse_from_rfc3339(val.s).some
      [] type = "object" -> val.t = "obj"
      [] type = "number" -> val.t = "num"
      [] type = "any" -> TRUE

\* the typed value of an accepted member
field_value(type, val) ==
    CASE type \in {"string", "address", "token_address"} -> val.s
      [] type = "network" -> parse_network(val.s).v
      [] type = "type" -> parse_type(val.s).v
      [] type = "status" -> parse_status(val.s).v
      [] type = "datetime" -> parse_from_rfc3339(val.s).v
      [] type = "object" -> val.o
      [] type = "number" -> val.n
      [] type = "any" -> val

\* required and optional fields (name -> type) of each payload type
Schema ==
    [Balance |->
         [req |-> (Key.address :> "address") @@ (Key.network :> "network")
                  @@ (Key.soft_balance :> "string") @@ (Key.hard_balance :> "string")
                  @@ (Key.processed_at :> "datetime"),
          opt |-> EmptyMap],
     TokenBalance |->
         [req |-> (Key.network :> "network") @@ (Key.address :> "address")
                  @@ (Key.token_address :> "token_address") @@ (Key.balance :> "string")
                  @@ (Key.processed_at :> "datetime"),
          opt |-> EmptyMap],
     TokenPrice |->
         [req |-> (Key.address :> "token_address") @@ (Key.network :> "network")
                  @@ (Key.processed_at :> "datetime"),
          opt |-> (Key.price_sats :> "any") @@ (Key.protocol :> "any")],
     Token |->
         [req |-> (Key.address :> "token_address") @@ (Key.network :> "network")
                  @@ (Key.ticker :> "string") @@ (Key.name :> "string")
                  @@ (Key.decimals :> "number"),
          opt |-> (Key.calculated_at :> "datetime")],
     Transaction |->
         [req |-> (Key.id :> "string") @@ (Key.network :> "network") @@ (Key.type :> "type")
                  @@ (Key.status :> "status") @@ (Key.processed_at :> "datetime"),
          opt |-> (Key.amount_sats :> "string") @@ (Key.token_amount :> "string")
                  @@ (Key.token_address :> "string")
                  @@ (Key.from_identifier :> "string") @@ (Key.to_identifier :> "string")
                  @@ (Key.bitcoin_txid :> "string") @@ (Key.token_io_details :> "object")
                  @@ (Key.updated_at :> "datetime") @@ (Key.expired_time :> "datetime")]]

\* an optional member that is absent or null
missing(obj, k) == k \notin DOMAIN obj \/ obj[k].t = "null"

conforms(schema, v) ==
    /\ is_object(v)
    /\ \A k \in DOMAIN schema.req : k \in DOMAIN v.o /\ field_ok(schema.req[k], v.o[k])
    /\ \A k \in DOMAIN schema.opt : missing(v.o, k) \/ field_ok(schema.opt[k], v.o[k])

opt_value(schema, obj, k) ==
    IF missing(obj, k) THEN None ELSE Some(field_value(schema.opt[k], obj[k]))

\* serde_json::from_value for the payload types other than TransactionPayload
from_value(schema, v) ==
    IF conforms(schema, v)
    THEN Ok([k \in DOMAIN schema.req \cup DOMAIN schema.opt |->
                IF k \in DOMAIN schema.req THEN field_value(schema.req[k], v.o[k])
                ELSE opt_value(schema, v.o, k)])
    ELSE Err("SerializationError")

\* serde_json::from_value::<transaction::TransactionPayload>
from_value_transaction(v) ==
    IF conforms(Schema.Transaction, v)
    THEN LET obj == v.o
             s == Schema.Transaction
         IN  Ok([id |-> obj[Key.id].s,
                 network |-> parse_network(obj[Key.network].s).v,
                 type_ |-> parse_type(obj[Key.type].s).v,
                 status |-> parse_status(obj[Key.status].s).v,
                 processed_at |-> parse_from_rfc3339(obj[Key.processed_at].s).v,
                 amount_sats |-> opt_value(s, obj, Key.amount_sats),
                 token_amount |-> opt_value(s, obj, Key.token_amount),
                 token_address |-> opt_value(s, obj, Key.token_address),
                 from_identifier |-> opt_value(s, obj, Key.from_identifier),
                 to_identifier |-> opt_value(s, obj, Key.to_identifier),
                 bitcoin_txid |-> opt_value(s, obj, Key.bitcoin_txid),
                 token_io_details |-> opt_value(s, obj, Key.token_io_details),
                 updated_at |-> opt_value(s, obj, Key.updated_at),
                 expired_time |-> opt_value(s, obj, Key.expired_time)])
    ELSE Err("SerializationError")

(***************************************************************************)
(* parse_message_for_topic                                                  *)
(***************************************************************************)
Message(variant, payload) == [variant |-> variant, payload |-> payload]

\* Ok(SparkScanMessage::<variant>(payload)) of a strict decode, or its error
wrap(variant, r) ==
    LET tagged(x) == IF x.ok THEN Ok(Message(variant, x.v)) ELSE x
    IN  Bind(r, tagged)

\* SparkScanMessage::message_type
message_type(m) ==
    CASE m.variant = "Balance" -> <<"b", "a", "l", "a", "n", "c", "e">>
      [] m.variant = "TokenBalance" ->
            <<"t", "o", "k", "e", "n", "_", "b", "a", "l", "a", "n", "c", "e">>
      [] m.variant = "TokenPrice" ->
            <<"t", "o", "k", "e", "n", "_", "p", "r", "i", "c", "e">>
      [] m.variant = "Token" -> <<"t", "o", "k", "e", "n">>
      [] m.variant = "Transaction" ->
            <<"t", "r", "a", "n", "s", "a", "c", "t", "i", "o", "n">>

\* a network() that gives the string the enum has on the wire
network_wire(m) ==
    LET data_network == IF m.variant = "Transaction" THEN m.payload.network
                        ELSE m.payload[Key.network]
    IN  Some(IF data_network = "Mainnet" THEN Str.MAINNET ELSE Str.REGTEST)

\* SparkScanMessage::network: Some(format!("{:?}", data.network)), the name
\* of the enum variant
network(m) ==
    LET data_network == IF m.variant = "Transaction" THEN m.payload.network
                        ELSE m.payload[Key.network]
    IN  Some(IF data_network = "Mainnet" THEN <<"M", "a", "i", "n", "n", "e", "t">>
             ELSE <<"R", "e", "g", "t", "e", "s", "t">>)

\* the Topic variants of each arm of the match in parse_message_for_topic
Arm ==
    [Balance |-> {"Balances", "BalanceNetwork", "BalanceAddress"},
     TokenBalance |-> {"TokenBalances", "TokenBalanceNetwork", "TokenBalanceIdentifier",
                       "TokenBalanceAddress"},
     TokenPrice |-> {"TokenPrices", "TokenPriceNetwork", "TokenPriceIdentifier"},
     Token |-> {"Tokens", "TokenIdentifier", "TokenNetwork", "TokenIssuer"},
     Transaction |-> {"Transactions", "TransactionNetwork", "TransactionIn",
                      "TransactionOut"}]

\* a Transaction arm without the fallback: the strict decode's error is returned
decode_transaction_strict(payload_data, now) ==
    wrap("Transaction", from_value_transaction(payload_data))

\* the Transaction arm: strict decode first, the fallback builder on failure
decode_transaction(payload_data, now) ==
    LET or_fallback(strict) ==
            IF strict.ok THEN Ok(Message("Transaction", strict.v))
            ELSE wrap("Transaction", create_fallback_transaction_payload(payload_data, now))
    IN  Bind(from_value_transaction(payload_data), or_fallback)

\* a match on the topic in which every arm falls back to the transaction
\* builder when its strict decode fails
dispatch_lenient(t, payload_data, now) ==
    LET or_fallback(strict) ==
            IF strict.ok THEN strict
            ELSE wrap("Transaction", create_fallback_transaction_payload(payload_data, now))
        arm(variant) == Bind(wrap(variant, from_value(Schema[variant], payload_data)),
                             or_fallback)
    IN  IF t.tag \in Arm.Balance THEN arm("Balance")
        ELSE IF t.tag \in Arm.TokenBalance THEN arm("TokenBalance")
        ELSE IF t.tag \in Arm.TokenPrice THEN arm("TokenPrice")
        ELSE IF t.tag \in Arm.Token THEN arm("Token")
        ELSE decode_transaction(payload_data, now)

\* a match on the topic in which BalanceAddress is listed with the
\* TokenBalance topics
dispatch_address_slip(t, payload_data, now) ==
    IF t.tag \in {"Balances", "BalanceNetwork"}
        THEN wrap("Balance", from_value(Schema.Balance, payload_data))
    ELSE IF t.tag \in Arm.TokenBalance \cup {"BalanceAddress"}
        THEN wrap("TokenBalance", from_value(Schema.TokenBalance, payload_data))
    ELSE IF t.tag \in Arm.TokenPrice
        THEN wrap("TokenPrice", from_value(Schema.TokenPrice, payload_data))
    ELSE IF t.tag \in Arm.Token
        THEN wrap("Token", from_value(Schema.Token, payload_data))
    ELSE decode_transaction(payload_data, now)

\* the match on the topic
dispatch(t, payload_data, now) ==
    IF t.tag \in Arm.Balance
        THEN wrap("Balance", from_value(Schema.Balance, payload_data))
    ELSE IF t.tag \in Arm.TokenBalance
        THEN wrap("TokenBalance", from_value(Schema.TokenBalance, payload_data))
    ELSE IF t.tag \in Arm.TokenPrice
        THEN wrap("TokenPrice", from_value(Schema.TokenPrice, payload_data))
    ELSE IF t.tag \in Arm.Token
        THEN wrap("Token", from_value(Schema.Token, payload_data))
    ELSE decode_transaction(payload_data, now)

\* a parse_message_for_topic that hands undecodable bytes of a Transaction
\* topic to the fallback builder, as an empty object
parse_message_salvaging(t, data, now) ==
    LET typed(payload_data) ==
            IF payload_data.ok THEN dispatch(t, payload_data.v, now)
            ELSE IF t.tag \in Arm.Transaction
                THEN wrap("Transaction",
                          create_fallback_transaction_payload(JObj(EmptyMap), now))
            ELSE payload_data
    IN  Bind(normalize(data), typed)

\* parse_message_for_topic(topic, data); now is the reading of the wall clock
parse_message_for_topic(t, data, now) ==
    LET typed(payload_data) == IF ~payload_data.ok THEN payload_data
                               ELSE dispatch(t, payload_data.v, now)
    IN  Bind(normalize(data), typed)

(***************************************************************************)
(* The payloads and envelopes a sender can publish                          *)
(***************************************************************************)
\* member values: null, a string with characters that need escaping, a
\* string that is itself JSON text, an array
Leaves == {JNull, JStr(<<"a", "\"", "\\">>), JStr(<<"7">>),
           JArr(<<JBool(TRUE), JNum(10)>>)}

WrapperKeys == {Key.data, Key.payload, Key.message}
PayloadKeys == {Key.id, Key.type} \cup WrapperKeys

SmallMaps(keys, values, n) ==
    UNION {[K -> values] : K \in {K \in SUBSET keys : Cardinality(K) <= n}}

PayloadObjects == {JObj(m) : m \in SmallMaps(PayloadKeys, Leaves, MaxObjKeys)}
Inners == PayloadObjects \cup Leaves

\* text that is not JSON
BadText == <<"n", "o", "t", " ", "j", "s", "o", "n">>

NoKey == <<>>
\* kind: direct (the payload itself), double (the payload's text as a JSON
\* string), badtop (a JSON string holding BadText), wrapped (an object with
\* the payload under key and other members under others).
\* form: str (the payload's text as a string), obj (the payload value),
\* bad (BadText as a string, the other members holding the payload)
Shapes ==
    {[kind |-> k, key |-> NoKey, others |-> {}, form |-> "obj"] :
        k \in {"direct", "double", "badtop"}}
    \cup {[kind |-> "wrapped", key |-> k, others |-> o, form |-> f] :
            k \in WrapperKeys,
            o \in SUBSET (WrapperKeys \cup {Key.type}),
            f \in {"str", "obj", "bad"}}

Junk == JStr(BadText)

\* the value the sender serializes
Envelope(p, sh) ==
    CASE sh.kind = "direct" -> p
      [] sh.kind = "double" -> JStr(to_string(p))
      [] sh.kind = "badtop" -> Junk
      [] sh.kind = "wrapped" ->
            JObj([k \in {sh.key} \cup sh.others |->
                    IF k = sh.key
                    THEN CASE sh.form = "str" -> JStr(to_string(p))
                           [] sh.form = "obj" -> p
                           [] sh.form = "bad" -> Junk
                    ELSE IF sh.form = "bad" THEN p ELSE Junk])

NoResult == [ok |-> FALSE, err |-> "none"]

EnvIdle ==
    /\ epc = "off"
    /\ inner = JNull
    /\ shape = [kind |-> "direct", key |-> NoKey, others |-> {}, form |-> "obj"]
    /\ body = <<>>
    /\ canon = NoResult
    /\ again = NoResult

TopicIdle ==
    /\ tpc = "off"
    /\ topic = NoTopic
    /\ wire = <<>>
    /\ parsed = NotCalled
    /\ rewire = <<>>

\* readings of the wall clock (chrono::Utc::now()), as instants: the
\* reading of the first decode, and a later one
ClockStart == [secs |-> 1762041600, nanos |-> 0]
Clock == {ClockStart, [secs |-> 1762041601, nanos |-> 5]}

DecIdle ==
    /\ dpc = "off"
    /\ dtopic = NoTopic
    /\ dinner = JNull
    /\ dshape = [kind |-> "direct", key |-> NoKey, others |-> {}, form |-> "obj"]
    /\ dbody = <<>>
    /\ dnow = ClockStart
    /\ dres = NoResult
    /\ dmate = NoTopic
    /\ dmnow = ClockStart
    /\ dmres = NoResult

\* the fallback, subscription, concurrent, client, manager and publish
\* scenarios not started, except those named in keep
OthersIdle(keep) ==
    /\ IF "fallback" \in keep THEN TRUE
       ELSE /\ fpc = "off"
            /\ fjson = JNull
            /\ fnow = ClockStart
            /\ fbuilt = NoResult
            /\ farm = NoResult
    /\ IF "subscription" \in keep THEN TRUE
       ELSE /\ stopic = NoTopic
            /\ inbox = <<>>
            /\ seen = 0
            /\ calls = <<>>
            /\ logged = <<>>
    /\ IF "concurrent" \in keep THEN TRUE
       ELSE /\ cin = <<>>
            /\ cpc = <<>>
            /\ cval = <<>>
            /\ cnow = <<>>
            /\ cres = <<>>
            /\ cclock = ClockStart
    /\ IF "client" \in keep THEN TRUE
       ELSE /\ cfg = None
            /\ chain = <<>>
            /\ client = None
            /\ tcfg = None
            /\ twin = None
    /\ IF "manager" \in keep THEN TRUE
       ELSE /\ subs = <<>>
            /\ mgr = <<>>
            /\ ret = None
    /\ IF "publish" \in keep THEN TRUE
       ELSE /\ psrc = None
            /\ ptopic = NoTopic
            /\ pbytes = <<>>
            /\ pnow = ClockStart
            /\ pres = NoResult

EnvInit ==
    /\ TopicIdle
    /\ DecIdle
    /\ OthersIdle({})
    /\ epc = "start"
    /\ inner \in Inners
    /\ shape \in {sh \in Shapes : sh.key \notin sh.others}
    /\ body = <<>>
    /\ canon = NoResult
    /\ again = NoResult

\* the sender: serde_json::to_string of the envelope, as bytes
Encode ==
    /\ epc = "start"
    /\ body' = to_string(Envelope(inner, shape))
    /\ epc' = "sent"
    /\ UNCHANGED <<inner, shape, canon, again, topicVars, decVars,
                   fbVars, subVars, ccVars,
                   clVars, mgVars, pbVars>>

\* decode_json and extract_payload_data on the received bytes
Normalize ==
    /\ epc = "sent"
    /\ canon' = normalize(body)
    /\ epc' = "normalized"
    /\ UNCHANGED <<inner, shape, body, again, topicVars, decVars,
                   fbVars, subVars, ccVars,
                   clVars, mgVars, pbVars>>

\* extract_payload_data applied once more, to the canonical value
Reapply ==
    /\ epc = "normalized"
    /\ canon.ok
    /\ again' = extract_payload_data(canon.v)
    /\ epc' = "reapplied"
    /\ UNCHANGED <<inner, shape, body, canon, topicVars, decVars,
                   fbVars, subVars, ccVars,
                   clVars, mgVars, pbVars>>

EnvNext == Encode \/ Normalize \/ Reapply

SpecEnvelope == EnvInit /\ [][EnvNext]_vars

(***************************************************************************)
(* The Topic scenario: a caller builds a Topic, formats it, parses the     *)
(* string and formats the parsed Topic again; or parses a raw string.       *)
(***************************************************************************)
TopicInit ==
    /\ EnvIdle
    /\ DecIdle
    /\ OthersIdle({})
    /\ parsed = NotCalled
    /\ rewire = <<>>
    /\ \/ /\ tpc = "built"
          /\ topic \in Topics
          /\ wire = <<>>
       \/ /\ tpc = "input"
          /\ topic = NoTopic
          /\ wire \in TopicInputs

\* let s = topic.as_str()
AsStr ==
    /\ tpc = "built"
    /\ wire' = as_str(topic)
    /\ tpc' = "wired"
    /\ UNCHANGED <<topic, parsed, rewire, envVars, decVars,
                   fbVars, subVars, ccVars,
                   clVars, mgVars, pbVars>>

\* Topic::from_str(s) returning a Topic
FromStrReturns ==
    /\ tpc \in {"wired", "input"}
    /\ from_str(wire).kind = "topic"
    /\ parsed' = from_str(wire)
    /\ tpc' = "parsed"
    /\ UNCHANGED <<topic, wire, rewire, envVars, decVars,
                   fbVars, subVars, ccVars,
                   clVars, mgVars, pbVars>>

\* Topic::from_str(s) reaching one of its panic!() calls: the caller unwinds
FromStrPanics ==
    /\ tpc \in {"wired", "input"}
    /\ from_str(wire).kind = "panic"
    /\ parsed' = from_str(wire)
    /\ tpc' = "panicked"
    /\ UNCHANGED <<topic, wire, rewire, envVars, decVars,
                   fbVars, subVars, ccVars,
                   clVars, mgVars, pbVars>>

\* parsed.as_str()
ReSerialize ==
    /\ tpc = "parsed"
    /\ rewire' = as_str(parsed.topic)
    /\ tpc' = "reserialized"
    /\ UNCHANGED <<topic, wire, parsed, envVars, decVars,
                   fbVars, subVars, ccVars,
                   clVars, mgVars, pbVars>>

TopicNext == AsStr \/ FromStrReturns \/ FromStrPanics \/ ReSerialize

SpecTopic == TopicInit /\ [][TopicNext]_vars

(***************************************************************************)
(* The decode scenario: the server publishes a payload on a channel, the    *)
(* subscription's handler decodes the bytes for its Topic, and a second     *)
(* Topic of the same family is given the same bytes.                        *)
(***************************************************************************)
\* member values: well-formed ones, and a string that fits no typed field
Sample ==
    [address |-> <<"s", "p", "1", "q">>,
     token_address |-> <<"b", "t", "k", "n", "1", "q">>,
     timestamp |-> <<"2", "0", "2", "5", "-", "0", "8", "-", "0", "1", "T", "1", "0", ":", "0", "0", ":", "0", "0", "Z">>,
     later |-> <<"2", "0", "2", "5", "-", "0", "8", "-", "0", "1", "T", "1", "2", ":", "0", "0", ":", "0", "1", ".", "5", "+", "0", "2", ":", "0", "0">>,
     bad |-> <<"x">>,
     id |-> <<"t", "x", "1">>]

\* a well-formed payload of each type
Base ==
    [Balance |->
         JObj((Key.address :> JStr(Sample.address)) @@ (Key.network :> JStr(Str.MAINNET))
              @@ (Key.soft_balance :> JStr(<<"1", "0">>)) @@ (Key.hard_balance :> JStr(<<"9">>))
              @@ (Key.processed_at :> JStr(Sample.timestamp))),
     TokenBalance |->
         JObj((Key.network :> JStr(Str.REGTEST)) @@ (Key.address :> JStr(Sample.address))
              @@ (Key.token_address :> JStr(Sample.token_address)) @@ (Key.balance :> JStr(<<"5">>))
              @@ (Key.processed_at :> JStr(Sample.timestamp))),
     TokenPrice |->
         JObj((Key.address :> JStr(Sample.token_address)) @@ (Key.price_sats :> JNum(12))
              @@ (Key.network :> JStr(Str.MAINNET)) @@ (Key.processed_at :> JStr(Sample.timestamp))),
     Token |->
         JObj((Key.address :> JStr(Sample.token_address)) @@ (Key.ticker :> JStr(<<"t">>))
              @@ (Key.name :> JStr(<<"n">>)) @@ (Key.decimals :> JNum(8))
              @@ (Key.network :> JStr(Str.MAINNET)) @@ (Key.calculated_at :> JStr(Sample.timestamp))),
     Transaction |->
         JObj((Key.id :> JStr(Sample.id)) @@ (Key.type :> JStr(Str.SparkToSpark))
              @@ (Key.status :> JStr(Str.Confirmed)) @@ (Key.amount_sats :> JStr(<<"5">>))
              @@ (Key.from_identifier :> JStr(Sample.address))
              @@ (Key.processed_at :> JStr(Sample.timestamp)) @@ (Key.updated_at :> JStr(Sample.later))
              @@ (Key.network :> JStr(Str.REGTEST)))]

Bases == {Base[f] : f \in DOMAIN Base}

\* what a server that drifts from the schema does to one member
EditKinds == {"drop", "null", "num", "bad"}
Edits(base) ==
    {[key |-> k, kind |-> kd] : k \in DOMAIN base.o, kd \in EditKinds}
    \cup {[key |-> Key.custom, kind |-> "bad"]}

apply_edit(base, e) ==
    IF e.kind = "drop"
    THEN JObj([k \in DOMAIN base.o \ {e.key} |-> base.o[k]])
    ELSE JObj([k \in DOMAIN base.o \cup {e.key} |->
                IF k # e.key THEN base.o[k]
                ELSE CASE e.kind = "null" -> JNull
                       [] e.kind = "num" -> JNum(3)
                       [] e.kind = "bad" -> JStr(Sample.bad)
                       [] e.kind = "empty" -> JStr(<<>>)
                       [] e.kind = "naive" -> JStr(SubSeq(Sample.timestamp, 1, 19))])

DecodeInners ==
    Bases \cup UNION {{apply_edit(b, e) : e \in Edits(b)} : b \in Bases}
    \cup {JObj(EmptyMap), JNull, JArr(<<JNum(1)>>)}

\* garbled: the bytes are not JSON at all
DecodeShapes ==
    {[kind |-> k, key |-> NoKey, others |-> {}, form |-> "obj"] :
        k \in {"direct", "double", "garbled"}}
    \cup {[kind |-> "wrapped", key |-> Key.data, others |-> {Key.type}, form |-> "obj"]}

\* bytes that are not JSON: nothing at all, the payload's text cut short,
\* bytes that are not UTF-8, and JSON text with such a byte inside a string
BrokenKinds == {"empty", "truncated", "non_utf8", "non_utf8_string"}
BrokenShapes ==
    {[kind |-> k, key |-> NoKey, others |-> {}, form |-> "obj"] : k \in BrokenKinds}

truncate(s) == SubSeq(s, 1, Len(s) - 1)

\* the bytes the server sends
Bytes(p, sh) ==
    CASE sh.kind = "garbled" -> BadText
      [] sh.kind = "empty" -> <<>>
      [] sh.kind = "truncated" -> truncate(to_string(p))
      [] sh.kind = "non_utf8" -> NonUtf8
      [] sh.kind = "non_utf8_string" ->
            to_string(JObj(Key.id :> JStr(<<"t", NonUtf8[1]>>)))
      [] OTHER -> to_string(Envelope(p, sh))

\* the Topics a subscription is opened for, and those the bytes are replayed to
DecodeHeads ==
    {T0(g) : g \in Tags0} \cup {T1(g, <<"m">>) : g \in Tags1}
    \cup {T2(g, <<"m">>, <<"m">>) : g \in Tags2}
DecodeTopics ==
    DecodeHeads \cup {T1(g, <<"r">>) : g \in Tags1}
    \cup {T2(g, <<"m">>, <<"r">>) : g \in Tags2}

\* both Topics are matched by the same arm of parse_message_for_topic
same_arm(t1, t2) == \E f \in DOMAIN Arm : t1.tag \in Arm[f] /\ t2.tag \in Arm[f]

DecInit ==
    /\ TopicIdle
    /\ EnvIdle
    /\ OthersIdle({})
    /\ dpc = "start"
    /\ dtopic \in DecodeHeads
    /\ dinner \in DecodeInners
    /\ \/ dshape \in DecodeShapes
       \/ dshape \in BrokenShapes /\ dinner \in Bases
    /\ dbody = <<>>
    /\ dnow = ClockStart
    /\ dres = NoResult
    /\ dmate = NoTopic
    /\ dmnow = ClockStart
    /\ dmres = NoResult

\* the server: the publication's bytes
Publish ==
    /\ dpc = "start"
    /\ dbody' = Bytes(dinner, dshape)
    /\ dpc' = "published"
    /\ UNCHANGED <<dtopic, dinner, dshape, dnow, dres, dmate, dmnow, dmres,
                   topicVars, envVars,
                   fbVars, subVars, ccVars,
                   clVars, mgVars, pbVars>>

\* the subscription's handler: parse_message_for_topic(dtopic, dbody)
Deliver ==
    /\ dpc = "published"
    /\ dres' = parse_message_for_topic(dtopic, dbody, dnow)
    /\ dpc' = "delivered"
    /\ UNCHANGED <<dtopic, dinner, dshape, dbody, dnow, dmate, dmnow, dmres,
                   topicVars, envVars,
                   fbVars, subVars, ccVars,
                   clVars, mgVars, pbVars>>

\* the same bytes decoded for another Topic of the same family, at the same
\* or a later reading of the clock
DeliverMate ==
    /\ dpc = "delivered"
    /\ \E t2 \in DecodeTopics, now \in Clock :
        /\ t2 # dtopic
        /\ same_arm(t2, dtopic)
        /\ dmate' = t2
        /\ dmnow' = now
        /\ dmres' = parse_message_for_topic(t2, dbody, now)
    /\ dpc' = "compared"
    /\ UNCHANGED <<dtopic, dinner, dshape, dbody, dnow, dres, topicVars, envVars,
                   fbVars, subVars, ccVars,
                   clVars, mgVars, pbVars>>

DecNext == Publish \/ Deliver \/ DeliverMate

SpecDecode == DecInit /\ [][DecNext]_vars

(***************************************************************************)
(* The fallback scenario: a JSON value reaches the Transaction arm; the     *)
(* fallback builder is applied to it, and then the arm as a whole.          *)
(***************************************************************************)
\* how many members of a transaction the server gets wrong at once
MaxEdits == 2

\* a transaction with every member of the schema present and well-formed
FullTransaction ==
    JObj((Key.id :> JStr(Sample.id)) @@ (Key.network :> JStr(Str.MAINNET))
         @@ (Key.type :> JStr(Str.SparkToLightning)) @@ (Key.status :> JStr(Str.Confirmed))
         @@ (Key.processed_at :> JStr(Sample.timestamp))
         @@ (Key.amount_sats :> JStr(<<"5">>)) @@ (Key.token_amount :> JStr(<<"7">>))
         @@ (Key.token_address :> JStr(Sample.token_address))
         @@ (Key.from_identifier :> JStr(Sample.address))
         @@ (Key.to_identifier :> JStr(<<"s", "p", "r", "t", "1", "q">>))
         @@ (Key.bitcoin_txid :> JStr(<<"a", "b">>))
         @@ (Key.updated_at :> JStr(Sample.later))
         @@ (Key.expired_time :> JStr(Sample.timestamp))
         @@ (Key.token_io_details :> JObj(Key.custom :> JNum(1))))

\* the values with up to n members of the values in S dropped, nulled,
\* mistyped, emptied or added, or a timestamp sent without its offset
\* ("naive"); custom and data are keys no schema names
RECURSIVE Edited(_, _)
Edited(S, n) ==
    IF n = 0 THEN S
    ELSE LET edits == {[key |-> k, kind |-> kd] :
                          k \in mapped_fields \cup {Key.custom, Key.data},
                          kd \in EditKinds \cup {"empty"}}
                      \cup {[key |-> k, kind |-> "naive"] :
                              k \in {Key.processed_at, Key.updated_at, Key.expired_time}}
         IN  Edited(S \cup {apply_edit(b, e) : b \in S, e \in edits}, n - 1)

FbInit ==
    /\ TopicIdle
    /\ EnvIdle
    /\ DecIdle
    /\ OthersIdle({"fallback"})
    /\ fpc = "start"
    /\ fjson \in Edited({FullTransaction, JObj(EmptyMap)}, MaxEdits)
                 \cup {JNull, JStr(Sample.bad), JArr(<<JNum(1)>>)}
    /\ fnow = ClockStart
    /\ fbuilt = NoResult
    /\ farm = NoResult

\* create_fallback_transaction_payload(fjson), at some reading of the clock
Build ==
    /\ fpc = "start"
    /\ \E now \in Clock :
        /\ fnow' = now
        /\ fbuilt' = create_fallback_transaction_payload(fjson, now)
    /\ fpc' = "built"
    /\ UNCHANGED <<fjson, farm, topicVars, envVars, decVars, subVars, ccVars,
                   clVars, mgVars, pbVars>>

\* the Transaction arm of parse_message_for_topic on the same value, at the
\* same reading of the clock
DecodeArm ==
    /\ fpc = "built"
    /\ farm' = decode_transaction(fjson, fnow)
    /\ fpc' = "decoded"
    /\ UNCHANGED <<fjson, fnow, fbuilt, topicVars, envVars, decVars, subVars, ccVars,
                   clVars, mgVars, pbVars>>

SpecFallback == FbInit /\ [][Build \/ DecodeArm]_vars

(***************************************************************************)
(* The subscription scenario: on_message has registered a callback; the     *)
(* transport hands the publications of the channel, one after the other,    *)
(* to the closure given to on_publication (subscription.rs).                *)
(***************************************************************************)
\* how many publications the channel carries
MaxInbox == 3

\* the channel carries a balance, a balance whose address is no address,
\* an object without members, and bytes that are not JSON
SubInit ==
    /\ TopicIdle
    /\ EnvIdle
    /\ DecIdle
    /\ OthersIdle({"subscription"})
    /\ stopic \in {T0("Balances"), T1("TransactionNetwork", <<"m">>)}
    /\ inbox \in SeqsUpTo({to_string(Base.Balance),
                           to_string(apply_edit(Base.Balance,
                                                [key |-> Key.address, kind |-> "bad"])),
                           to_string(JObj(EmptyMap)),
                           BadText},
                          MaxInbox)
    /\ seen = 0
    /\ calls = <<>>
    /\ logged = <<>>

\* a closure that drops a publication it cannot decode without a trace
OnPublicationSilent ==
    /\ seen < Len(inbox)
    /\ \E now \in Clock :
        LET handle(r) == IF r.ok THEN Append(calls, r.v) ELSE calls
        IN  calls' = Bind(parse_message_for_topic(stopic, inbox[seen + 1], now), handle)
    /\ seen' = seen + 1
    /\ UNCHANGED <<stopic, inbox, logged, topicVars, envVars, decVars, fbVars, ccVars,
                   clVars, mgVars, pbVars>>

\* the closure of on_message, run for the next publication: the callback is
\* called with the message, or the error is logged
OnPublication ==
    /\ seen < Len(inbox)
    /\ \E now \in Clock :
        LET handle(r) == IF r.ok THEN <<Append(calls, r.v), logged>>
                         ELSE <<calls, Append(logged, r.err)>>
        IN  \E out \in {Bind(parse_message_for_topic(stopic, inbox[seen + 1], now),
                              handle)} :
                calls' = out[1] /\ logged' = out[2]
    /\ seen' = seen + 1
    /\ UNCHANGED <<stopic, inbox, topicVars, envVars, decVars, fbVars, ccVars,
                   clVars, mgVars, pbVars>>

\* the transport runs the closure for every publication it has received
SpecSubscription == SubInit /\ [][OnPublication]_vars /\ WF_vars(OnPublication)

(***************************************************************************)
(* The concurrent scenario: several invocations of parse_message_for_topic  *)
(* run at once, each on its own topic and bytes. An invocation is three     *)
(* steps (decode_json, extract_payload_data, the match on the topic), each  *)
(* working on the invocation's own locals; the wall clock moves on its own. *)
(***************************************************************************)
\* how many invocations run at once
MaxCalls == 2

Calls == 1..MaxCalls

\* an invocation is given a Balance or a Transaction topic, and a balance
\* wrapped under data, an object without members, a JSON string that holds
\* no JSON, or bytes that are not JSON
CcInit ==
    /\ TopicIdle
    /\ EnvIdle
    /\ DecIdle
    /\ OthersIdle({"concurrent"})
    /\ cin \in [Calls -> [topic : {T0("Balances"), T0("Transactions")},
                          data : {to_string(JObj(Key.data :> Base.Balance)),
                                  to_string(JObj(EmptyMap)), to_string(Junk), BadText}]]
    /\ cpc = [i \in Calls |-> "start"]
    /\ cval = [i \in Calls |-> NoResult]
    /\ cnow = [i \in Calls |-> ClockStart]
    /\ cres = [i \in Calls |-> NoResult]
    /\ cclock = ClockStart

\* a step of invocation i that ends in local value r: an error returns
\* from the function, a value moves the invocation on to position next
Step(i, r, next) ==
    /\ cval' = [cval EXCEPT ![i] = r]
    /\ cpc' = [cpc EXCEPT ![i] = IF r.ok THEN next ELSE "done"]
    /\ cres' = [cres EXCEPT ![i] = IF r.ok THEN @ ELSE r]

\* let json_value = decode_json(data).map_err(...)?
DecodeJson(i) ==
    /\ cpc[i] = "start"
    /\ \E r \in {decode_json(cin[i].data)} : Step(i, r, "decoded")
    /\ UNCHANGED <<cin, cnow, cclock, topicVars, envVars, decVars, fbVars, subVars,
                   clVars, mgVars, pbVars>>

\* an extract step that works on a buffer shared by all invocations: it
\* takes the value another invocation has decoded last
ExtractShared(i) ==
    /\ cpc[i] = "decoded"
    /\ \E j \in Calls :
        /\ j = i \/ cpc[j] = "decoded"
        /\ \A k \in Calls : (k # i /\ cpc[k] = "decoded") => j # i
        /\ \E r \in {extract_payload_data(cval[j].v)} : Step(i, r, "extracted")
    /\ UNCHANGED <<cin, cnow, cclock, topicVars, envVars, decVars, fbVars, subVars,
                   clVars, mgVars, pbVars>>

\* let payload_data = extract_payload_data(json_value)?
Extract(i) ==
    /\ cpc[i] = "decoded"
    /\ \E r \in {extract_payload_data(cval[i].v)} : Step(i, r, "extracted")
    /\ UNCHANGED <<cin, cnow, cclock, topicVars, envVars, decVars, fbVars, subVars,
                   clVars, mgVars, pbVars>>

\* match topic { ... }: the typed decode, which reads the clock
Match(i) ==
    /\ cpc[i] = "extracted"
    /\ cnow' = [cnow EXCEPT ![i] = cclock]
    /\ cres' = [cres EXCEPT ![i] = dispatch(cin[i].topic, cval[i].v, cclock)]
    /\ cpc' = [cpc EXCEPT ![i] = "done"]
    /\ UNCHANGED <<cin, cval, cclock, topicVars, envVars, decVars, fbVars, subVars,
                   clVars, mgVars, pbVars>>

\* time passes
Tick ==
    /\ cclock = ClockStart
    /\ cclock' \in Clock \ {ClockStart}
    /\ UNCHANGED <<cin, cpc, cval, cnow, cres, topicVars, envVars, decVars, fbVars, subVars,
                   clVars, mgVars, pbVars>>

SpecConcurrent ==
    CcInit /\ [][Tick \/ \E i \in Calls : DecodeJson(i) \/ Extract(i) \/ Match(i)]_vars

(***************************************************************************)
(* The client scenario: a caller builds a SparkScanWsConfig with the        *)
(* builder methods and a client from it; a second client is built from a    *)
(* configuration with other retry and timeout settings, and both are given  *)
(* the same calls (client.rs).                                              *)
(***************************************************************************)
\* how many builder calls the caller chains after new
MaxChain == 2
\* how many subscriptions the caller asks each client for
MaxChannels == 1

\* SparkScanWsConfig::new(url): Self { url: url.into(), ..Default::default() }
new(url) ==
    [url |-> url,
     use_protobuf |-> FALSE,
     connection_timeout |-> 30,
     auto_reconnect |-> TRUE,
     max_reconnect_attempts |-> 5,
     reconnect_delay |-> 1000]

\* builder methods that start again from the defaults before they set their
\* field
with_resetting(config, method, v) ==
    CASE method = "with_protobuf" -> [new(config.url) EXCEPT !.use_protobuf = v]
      [] method = "with_timeout" -> [new(config.url) EXCEPT !.connection_timeout = v]
      [] method = "with_auto_reconnect" -> [new(config.url) EXCEPT !.auto_reconnect = v]
      [] method = "with_max_reconnect_attempts" ->
            [new(config.url) EXCEPT !.max_reconnect_attempts = v]
      [] method = "with_reconnect_delay" -> [new(config.url) EXCEPT !.reconnect_delay = v]

\* the builder methods with_protobuf, with_timeout, with_auto_reconnect,
\* with_max_reconnect_attempts, with_reconnect_delay: self.<field> = v; self
with(config, method, v) ==
    CASE method = "with_protobuf" -> [config EXCEPT !.use_protobuf = v]
      [] method = "with_timeout" -> [config EXCEPT !.connection_timeout = v]
      [] method = "with_auto_reconnect" -> [config EXCEPT !.auto_reconnect = v]
      [] method = "with_max_reconnect_attempts" ->
            [config EXCEPT !.max_reconnect_attempts = v]
      [] method = "with_reconnect_delay" -> [config EXCEPT !.reconnect_delay = v]

\* a with_config that hands the connection timeout to the transport client
with_config_timeout(config) ==
    [inner |-> [url |-> config.url,
                config |-> [use_protobuf |-> config.use_protobuf,
                            timeout |-> config.connection_timeout],
                connecting |-> FALSE,
                channels |-> <<>>],
     config |-> config]

\* SparkScanWsClient::with_config: the transport client is made from
\* config.url and a Config that has use_protobuf() applied or not
with_config(config) ==
    [inner |-> [url |-> config.url,
                config |-> IF config.use_protobuf THEN [use_protobuf |-> TRUE]
                           ELSE [use_protobuf |-> FALSE],
                connecting |-> FALSE,
                channels |-> <<>>],
     config |-> config]

\* SparkScanWsConfig::new(url) for one of two urls; no client yet
ClInit ==
    /\ TopicIdle
    /\ EnvIdle
    /\ DecIdle
    /\ OthersIdle({"client"})
    /\ \E url \in {"ws://localhost:8000", "ws://sparkscan.io/"} :
        /\ cfg = new(url)
        /\ chain = <<[method |-> "new", v |-> url]>>
    /\ client = None
    /\ tcfg = None
    /\ twin = None

\* one more builder call on the configuration
With ==
    /\ ~client.some
    /\ Len(chain) <= MaxChain
    /\ \E call \in
            [method : {"with_protobuf", "with_auto_reconnect"}, v : BOOLEAN]
            \cup {[method |-> "with_timeout", v |-> 60],
                  [method |-> "with_max_reconnect_attempts", v |-> 10],
                  [method |-> "with_reconnect_delay", v |-> 2000]} :
        /\ cfg' = with(cfg, call.method, call.v)
        /\ chain' = Append(chain, call)
    /\ UNCHANGED <<client, tcfg, twin, topicVars, envVars, decVars, fbVars, subVars,
                   ccVars, mgVars, pbVars>>

\* SparkScanWsClient::with_config(cfg), and with_config of a configuration
\* with the same url and use_protobuf and any other settings
WithConfig ==
    /\ ~client.some
    /\ client' = Some(with_config(cfg))
    /\ \E other \in [connection_timeout : {30, 60}, auto_reconnect : BOOLEAN,
                     max_reconnect_attempts : {5, 10}, reconnect_delay : {1000, 2000}] :
        /\ tcfg' = [url |-> cfg.url,
                    use_protobuf |-> cfg.use_protobuf,
                    connection_timeout |-> other.connection_timeout,
                    auto_reconnect |-> other.auto_reconnect,
                    max_reconnect_attempts |-> other.max_reconnect_attempts,
                    reconnect_delay |-> other.reconnect_delay]
        /\ twin' = Some(with_config(tcfg'))
    /\ UNCHANGED <<cfg, chain, topicVars, envVars, decVars, fbVars, subVars,
                   ccVars, mgVars, pbVars>>

\* connect() on both clients: self.inner.connect(), then Ok(())
Connect ==
    /\ client.some
    /\ ~client.v.inner.connecting
    /\ client' = [client EXCEPT !.v.inner.connecting = TRUE]
    /\ twin' = [twin EXCEPT !.v.inner.connecting = TRUE]
    /\ UNCHANGED <<cfg, chain, tcfg, topicVars, envVars, decVars, fbVars, subVars,
                   ccVars, mgVars, pbVars>>

\* subscribe(topic) on both clients: self.inner.new_subscription(&topic.as_str())
ClientSubscribe ==
    /\ client.some
    /\ Len(client.v.inner.channels) < MaxChannels
    /\ \E t \in {T0("Balances"), T1("TransactionNetwork", <<"m">>)} :
        /\ client' = [client EXCEPT !.v.inner.channels = Append(@, as_str(t))]
        /\ twin' = [twin EXCEPT !.v.inner.channels = Append(@, as_str(t))]
    /\ UNCHANGED <<cfg, chain, tcfg, topicVars, envVars, decVars, fbVars, subVars,
                   ccVars, mgVars, pbVars>>

SpecClient == ClInit /\ [][With \/ WithConfig \/ Connect \/ ClientSubscribe]_vars

(***************************************************************************)
(* The manager scenario: the caller holds subscription handles the client   *)
(* returned, starts and stops them, and moves them into and out of a        *)
(* SubscriptionManager (subscription.rs).                                   *)
(***************************************************************************)
\* how many handles the caller got from the client
MaxSubs == 3

\* SparkScanSubscription::is_subscribed: true, whatever the handle
is_subscribed(subscription) == TRUE

\* SubscriptionManager::len and is_empty: those of the HashMap
len(subscriptions) == Cardinality(DOMAIN subscriptions)
is_empty(subscriptions) == DOMAIN subscriptions = {}

\* SubscriptionManager::new(), and the handles as SparkScanSubscription::new
\* left them: the inner subscription not started, the caller holding them
MgInit ==
    /\ TopicIdle
    /\ EnvIdle
    /\ DecIdle
    /\ OthersIdle({"manager"})
    /\ subs \in [1..MaxSubs ->
                    [topic : {T0("Balances"), T1("TransactionNetwork", <<"m">>)},
                     active : {FALSE},
                     holder : {"caller"}]]
    /\ mgr = <<>>
    /\ ret = None

\* subscribe() on a handle: self.inner.subscribe()
Subscribe(i) ==
    /\ subs[i].holder # "dropped"
    /\ subs' = [subs EXCEPT ![i].active = TRUE]
    /\ UNCHANGED <<mgr, ret, topicVars, envVars, decVars, fbVars, subVars, ccVars,
                   clVars, pbVars>>

\* unsubscribe() on a handle: self.inner.unsubscribe()
Unsubscribe(i) ==
    /\ subs[i].holder # "dropped"
    /\ subs' = [subs EXCEPT ![i].active = FALSE]
    /\ UNCHANGED <<mgr, ret, topicVars, envVars, decVars, fbVars, subVars, ccVars,
                   clVars, pbVars>>

\* an add that leaves an entry already stored under the wire string in
\* place and drops the new handle
AddKeepingFirst(i) ==
    /\ subs[i].holder = "caller"
    /\ LET topic_str == as_str(subs[i].topic)
       IN  IF topic_str \in DOMAIN mgr
           THEN /\ mgr' = mgr
                /\ subs' = [subs EXCEPT ![i].holder = "dropped"]
           ELSE /\ mgr' = [k \in DOMAIN mgr \cup {topic_str} |->
                              IF k = topic_str THEN i ELSE mgr[k]]
                /\ subs' = [subs EXCEPT ![i].holder = "manager"]
    /\ UNCHANGED <<ret, topicVars, envVars, decVars, fbVars, subVars, ccVars,
                   clVars, pbVars>>

\* SubscriptionManager::add: insert under subscription.topic().as_str(); the
\* handle moves into the map, and a handle the insert displaced is dropped
Add(i) ==
    /\ subs[i].holder = "caller"
    /\ LET topic_str == as_str(subs[i].topic)
       IN  /\ mgr' = [k \in DOMAIN mgr \cup {topic_str} |->
                        IF k = topic_str THEN i ELSE mgr[k]]
           /\ subs' = [j \in DOMAIN subs |->
                        IF j = i THEN [subs[j] EXCEPT !.holder = "manager"]
                        ELSE IF topic_str \in DOMAIN mgr /\ j = mgr[topic_str]
                        THEN [subs[j] EXCEPT !.holder = "dropped"]
                        ELSE subs[j]]
    /\ UNCHANGED <<ret, topicVars, envVars, decVars, fbVars, subVars, ccVars,
                   clVars, pbVars>>

\* SubscriptionManager::get(topic): the entry under the string, if any
Get(topic_str) ==
    /\ ret' = IF topic_str \in DOMAIN mgr THEN Some(mgr[topic_str]) ELSE None
    /\ UNCHANGED <<subs, mgr, topicVars, envVars, decVars, fbVars, subVars, ccVars,
                   clVars, pbVars>>

\* SubscriptionManager::remove(topic): the entry under the string, if any,
\* taken out of the map and handed to the caller
Remove(topic_str) ==
    /\ ret' = IF topic_str \in DOMAIN mgr THEN Some(mgr[topic_str]) ELSE None
    /\ mgr' = [k \in DOMAIN mgr \ {topic_str} |-> mgr[k]]
    /\ subs' = [j \in DOMAIN subs |->
                    IF topic_str \in DOMAIN mgr /\ j = mgr[topic_str]
                    THEN [subs[j] EXCEPT !.holder = "caller"]
                    ELSE subs[j]]
    /\ UNCHANGED <<topicVars, envVars, decVars, fbVars, subVars, ccVars,
                   clVars, pbVars>>

\* the strings the caller asks the manager about: the wire strings of three
\* topics, one of which no handle is for
SpecManager ==
    MgInit /\ [][\/ \E i \in 1..MaxSubs : Subscribe(i) \/ Unsubscribe(i) \/ Add(i)
                 \/ \E t \in {T0("Balances"), T1("TransactionNetwork", <<"m">>),
                              T0("Tokens")} :
                        Get(as_str(t)) \/ Remove(as_str(t))]_vars

(***************************************************************************)
(* The publish scenario: a subscriber publishes a typed message, or the     *)
(* server sends a transaction object as it is; a subscription for some      *)
(* topic receives the bytes and decodes them (subscription.rs, types.rs).   *)
(***************************************************************************)
\* DateTime<Utc> as the serializer writes it: YYYY-MM-DDTHH:MM:SS, a
\* fraction of 3, 6 or 9 digits when there is one, and Z
to_rfc3339(t) ==
    LET z == t.secs \div 86400 + 719468
        rem == t.secs % 86400
        era == z \div 146097
        doe == z - era * 146097
        yoe == (doe - doe \div 1460 + doe \div 36524 - doe \div 146096) \div 365
        doy == doe - (365 * yoe + yoe \div 4 - yoe \div 100)
        mp == (5 * doy + 2) \div 153
        d == doy - (153 * mp + 2) \div 5 + 1
        m == IF mp < 10 THEN mp + 3 ELSE mp - 9
        y == yoe + era * 400 + (IF m <= 2 THEN 1 ELSE 0)
        pad(n, w) == [i \in 1..(w - Len(Digits(n))) |-> "0"] \o Digits(n)
        frac == IF t.nanos = 0 THEN <<>>
                ELSE IF t.nanos % 1000000 = 0 THEN <<".">> \o pad(t.nanos \div 1000000, 3)
                ELSE IF t.nanos % 1000 = 0 THEN <<".">> \o pad(t.nanos \div 1000, 6)
                ELSE <<".">> \o pad(t.nanos, 9)
    IN  pad(y, 4) \o <<"-">> \o pad(m, 2) \o <<"-">> \o pad(d, 2) \o <<"T">>
        \o pad(rem \div 3600, 2) \o <<":">> \o pad((rem % 3600) \div 60, 2)
        \o <<":">> \o pad(rem % 60, 2) \o frac \o <<"Z">>

\* the JSON value of a message's payload (Serialize of the payload types):
\* every required field, and every optional field that is Some
to_value(m) ==
    LET schema == Schema[m.variant]
        p == m.payload
        field(k) ==
            IF m.variant # "Transaction" THEN p[k]
            ELSE CASE k = Key.id -> p.id
                   [] k = Key.network -> p.network
                   [] k = Key.type -> p.type_
                   [] k = Key.status -> p.status
                   [] k = Key.processed_at -> p.processed_at
                   [] k = Key.amount_sats -> p.amount_sats
                   [] k = Key.token_amount -> p.token_amount
                   [] k = Key.token_address -> p.token_address
                   [] k = Key.from_identifier -> p.from_identifier
                   [] k = Key.to_identifier -> p.to_identifier
                   [] k = Key.bitcoin_txid -> p.bitcoin_txid
                   [] k = Key.token_io_details -> p.token_io_details
                   [] k = Key.updated_at -> p.updated_at
                   [] k = Key.expired_time -> p.expired_time
        json(type, x) ==
            CASE type \in {"string", "address", "token_address"} -> JStr(x)
              [] type = "network" -> JStr(IF x = "Mainnet" THEN Str.MAINNET ELSE Str.REGTEST)
              [] type \in {"type", "status"} -> JStr(Str[x])
              [] type = "datetime" -> JStr(to_rfc3339(x))
              [] type = "object" -> JObj(x)
              [] type = "number" -> JNum(x)
              [] type = "any" -> x
        present == DOMAIN schema.req \cup {k \in DOMAIN schema.opt : field(k).some}
    IN  JObj([k \in present |->
                IF k \in DOMAIN schema.req THEN json(schema.req[k], field(k))
                ELSE json(schema.opt[k], field(k).v)])

\* a publish that writes the payload under "content"
publish_content_key(message) ==
    <<"{">> \o Quoted(Key.type) \o <<":">> \o Quoted(message_type(message))
    \o <<",">> \o Quoted(<<"c", "o", "n", "t", "e", "n", "t">>) \o <<":">>
    \o to_string(to_value(message)) \o <<"}">>

\* SparkScanSubscription::publish: serde_json::to_vec(message), the enum
\* being tagged with "type" and its content under "data"
publish(message) ==
    <<"{">> \o Quoted(Key.type) \o <<":">> \o Quoted(message_type(message))
    \o <<",">> \o Quoted(Key.data) \o <<":">>
    \o to_string(to_value(message)) \o <<"}">>

\* the message to publish is one that a decode of a payload of the tests, or
\* of one with a member dropped, nulled, mistyped or added, has given; the
\* body the server sends as it is, is a transaction whose amount_sats is a
\* number, with one more member that no schema names
PubInit ==
    /\ TopicIdle
    /\ EnvIdle
    /\ DecIdle
    /\ OthersIdle({"publish"})
    /\ ptopic \in DecodeHeads
    /\ LET payloads(f) == {Base[f], FullTransaction}
                          \cup {apply_edit(Base[f], e) : e \in Edits(Base[f])}
           decoded(f) == {dispatch(T0(CHOOSE g \in Tags0 : g \in Arm[f]), v, now) :
                              v \in payloads(f), now \in Clock}
           drifted == apply_edit(Base.Transaction, [key |-> Key.amount_sats, kind |-> "num"])
           sent == {apply_edit(drifted, [key |-> k, kind |-> kd]) :
                        k \in WrapperKeys \cup {Key.custom},
                        kd \in {"bad", "num", "null"}}
                   \cup {JObj(drifted.o @@ (k :> Base.Balance)) :
                            k \in WrapperKeys \cup {Key.custom}}
       IN  \/ /\ \E f \in DOMAIN Base :
                    psrc \in {Some([kind |-> "message", m |-> r.v]) :
                                r \in {x \in decoded(f) : x.ok}}
              /\ pbytes = <<>>
           \/ /\ psrc \in {Some([kind |-> "raw", v |-> v]) : v \in sent}
              /\ pbytes = to_string(psrc.v.v)
    /\ pnow = ClockStart
    /\ pres = NoResult

\* publish(message) on the sender's subscription
PublishMessage ==
    /\ psrc.v.kind = "message"
    /\ pbytes = <<>>
    /\ pbytes' = publish(psrc.v.m)
    /\ UNCHANGED <<psrc, ptopic, pnow, pres, topicVars, envVars, decVars, fbVars,
                   subVars, ccVars, clVars, mgVars>>

\* parse_message_for_topic(ptopic, pbytes) on the receiving subscription
Receive ==
    /\ pbytes # <<>>
    /\ pres = NoResult
    /\ \E now \in Clock :
        /\ pnow' = now
        /\ pres' = parse_message_for_topic(ptopic, pbytes, now)
    /\ UNCHANGED <<psrc, ptopic, pbytes, topicVars, envVars, decVars, fbVars,
                   subVars, ccVars, clVars, mgVars>>

SpecPublish == PubInit /\ [][PublishMessage \/ Receive]_vars

(***************************************************************************)
(* Properties of the Topic conversion                                       *)
(***************************************************************************)
FromStrDone == tpc \in {"parsed", "panicked", "reserialized"}

\* the string matches none of the five literals and none of the path prefixes
Unmatched(s) ==
    /\ s \notin Literals
    /\ \A p \in Prefixes1 \cup Prefixes2 : ~starts_with(s, p)

\* s starts with /transaction/in/ or /transaction/out/ and what follows satisfies P
TwoPartRemainder(s, P(_)) ==
    \E p \in Prefixes2 : starts_with(s, p) /\ P(strip_prefix(s, p))

NoSlash(rest) == SlashPositions(rest) = {}
NotOneSlash(rest) == Cardinality(SlashPositions(rest)) # 1

\* the first parameter of a two-parameter Topic contains the separator
AmbiguousTopic(t) == t.tag \in Tags2 /\ SlashPositions(t.args[1]) # {}

\* C1 as stated: every constructible Topic, parameters containing '/'
\* included, is returned unchanged by from_str(as_str(t)).
C1_RoundTripAll ==
    (topic # NoTopic /\ FromStrDone) => parsed = Returned(topic)

\* C1 (amended): from_str(as_str(t)) = t for every Topic t except a
\* TransactionIn/TransactionOut whose first parameter contains '/'; for
\* those from_str returns the same variant with the cut moved to the first
\* '/' of the joined parameters, a Topic different from t.
C1_RoundTrip ==
    (topic # NoTopic /\ FromStrDone) =>
        IF AmbiguousTopic(topic)
        THEN /\ parsed.kind = "topic"
             /\ parsed.topic.tag = topic.tag
             /\ parsed.topic # topic
             /\ parsed.topic.args =
                    splitn2(topic.args[1] \o <<"/">> \o topic.args[2])
        ELSE parsed = Returned(topic)

\* a round trip of a Topic whose parameters hold '/' and the empty string
C1_Witness ==
    /\ tpc = "parsed"
    /\ topic = T2("TransactionOut", <<>>, <<"/", "m">>)
    /\ parsed = Returned(topic)

\* the wire name of each variant, as the claim lists them
WireHead ==
    [Balances |-> Lit.balances, TokenBalances |-> Lit.token_balances,
     TokenPrices |-> Lit.token_prices, Transactions |-> Lit.transactions,
     Tokens |-> Lit.tokens,
     BalanceNetwork |-> Pfx.BalanceNetwork, BalanceAddress |-> Pfx.BalanceAddress,
     TokenBalanceNetwork |-> Pfx.TokenBalanceNetwork,
     TokenBalanceIdentifier |-> Pfx.TokenBalanceIdentifier,
     TokenBalanceAddress |-> Pfx.TokenBalanceAddress,
     TokenPriceNetwork |-> Pfx.TokenPriceNetwork,
     TokenPriceIdentifier |-> Pfx.TokenPriceIdentifier,
     TransactionNetwork |-> Pfx.TransactionNetwork,
     TransactionIn |-> Pfx.TransactionIn, TransactionOut |-> Pfx.TransactionOut,
     TokenIdentifier |-> Pfx.TokenIdentifier, TokenNetwork |-> Pfx.TokenNetwork,
     TokenIssuer |-> Pfx.TokenIssuer]

JoinedArgs(args) ==
    IF Len(args) = 0 THEN <<>>
    ELSE IF Len(args) = 1 THEN args[1]
    ELSE args[1] \o <<"/">> \o args[2]

\* C2: as_str gives each variant its fixed literal or prefix followed by the
\* parameters (two parameters joined by one '/'), and from_str maps that
\* string, and any raw string made of a literal or of a one-parameter prefix
\* and a remainder, back to the variant of the literal or prefix.
C2_WireFormat ==
    /\ (topic # NoTopic /\ tpc # "built") =>
            wire = WireHead[topic.tag] \o JoinedArgs(topic.args)
    /\ (topic # NoTopic /\ FromStrDone) =>
            parsed.kind = "topic" /\ parsed.topic.tag = topic.tag
    /\ (topic = NoTopic /\ FromStrDone) =>
            /\ \A tag \in Tags0 :
                    wire = WireHead[tag] => parsed = Returned(T0(tag))
            /\ \A tag \in Tags1 :
                    starts_with(wire, WireHead[tag]) =>
                        parsed = Returned(T1(tag, strip_prefix(wire, WireHead[tag])))
            /\ \A tag \in Tags2 :
                    (starts_with(wire, WireHead[tag]) /\ parsed.kind = "topic") =>
                        parsed.topic.tag = tag

\* a two-parameter Topic formatted and parsed back to its own variant
C2_Witness ==
    /\ tpc = "parsed"
    /\ topic = T2("TransactionOut", <<"m">>, <<"m", "m">>)
    /\ wire = Pfx.TransactionOut \o <<"m", "/", "m", "m">>
    /\ parsed.topic.tag = "TransactionOut"

\* C3 as stated: from_str fails exactly on an unmatched string or on a
\* /transaction/in|out/ remainder that does not hold exactly one '/'.
C3_FailsUnlessExactlyTwoParts ==
    FromStrDone =>
        (parsed.kind = "panic" <=>
            (Unmatched(wire) \/ TwoPartRemainder(wire, NotOneSlash)))

\* C3 (amended): from_str fails exactly when the string is none of the five
\* literals and starts with none of the prefixes, or when it starts with
\* /transaction/in/ or /transaction/out/ and the remainder holds no '/'; a
\* remainder with more than one '/' is cut at the first one and succeeds.
C3_FailsExactly ==
    FromStrDone =>
        /\ parsed.kind = "panic" <=>
                (Unmatched(wire) \/ TwoPartRemainder(wire, NoSlash))
        /\ parsed.kind \in {"topic", "panic"}

\* a remainder with two '/' parsed into two parts
C3_Witness ==
    /\ tpc = "parsed"
    /\ wire = Pfx.TransactionIn \o <<"/", "/">>
    /\ parsed = Returned(T2("TransactionIn", <<>>, <<"/">>))

\* C4: a string matching no known pattern yields an error value the caller
\* can handle, and the caller is never terminated abnormally.
C4_UnknownTopicIsRecoverable ==
    (FromStrDone /\ Unmatched(wire)) =>
        parsed.kind = "error" /\ tpc # "panicked"

\* C5: the wire string of every Topic is non-empty, parses without failing,
\* and the parsed Topic formats to the same wire string.
C5_WireFixedPoint ==
    topic # NoTopic =>
        /\ tpc # "built" => wire # <<>>
        /\ tpc # "panicked"
        /\ tpc = "reserialized" => rewire = wire

\* the fixed point reached for a Topic that from_str does not give back
C5_Witness ==
    /\ tpc = "reserialized"
    /\ AmbiguousTopic(topic)
    /\ parsed.topic # topic
    /\ rewire = wire


(***************************************************************************)
(* Properties of envelope normalization                                     *)
(***************************************************************************)
Normalized == epc \in {"normalized", "reapplied"}

HasWrapperKey(v) == is_object(v) /\ DOMAIN v.o \cap WrapperKeys # {}

\* C6: a body that is the JSON string literal holding the text of an object
\* p normalizes to exactly p.
C6_DoubleEncoding ==
    (Normalized /\ shape.kind = "double" /\ is_object(inner)) =>
        canon = Ok(inner)

\* a double-encoded object with two members, one of them a string with '"'
C6_Witness ==
    /\ epc = "normalized"
    /\ shape.kind = "double"
    /\ inner = JObj((Key.id :> JStr(<<"a", "\"", "\\">>)) @@ (Key.data :> JNull))
    /\ body[1] = "\""
    /\ canon = Ok(inner)

\* the envelope is the object {k: ...} alone
SingleWrapper == shape.kind = "wrapped" /\ shape.others = {}

\* C7: for each wrapper key k, the objects {k: text of p as a string} and
\* {k: p} both normalize to exactly p, p being any object.
C7_EnvelopeTransparency ==
    (Normalized /\ SingleWrapper /\ shape.form \in {"str", "obj"} /\ is_object(inner)) =>
        canon = Ok(inner)

\* {"message": "<text of p>"} normalized to p
C7_Witness ==
    /\ epc = "normalized"
    /\ SingleWrapper
    /\ shape.key = Key.message
    /\ shape.form = "str"
    /\ inner = JObj((Key.id :> JStr(<<"7">>)) @@ (Key.type :> JArr(<<JBool(TRUE), JNum(10)>>)))
    /\ canon = Ok(inner)

\* C8: an object with none of the keys data, payload, message, sent as it
\* is, normalizes to itself.
C8_DirectPassThrough ==
    (Normalized /\ shape.kind = "direct" /\ is_object(inner) /\ ~HasWrapperKey(inner)) =>
        canon = Ok(inner)

\* a direct object with two members passed through
C8_Witness ==
    /\ epc = "normalized"
    /\ shape.kind = "direct"
    /\ inner = JObj((Key.id :> JStr(<<"a", "\"", "\\">>)) @@ (Key.type :> JNull))
    /\ canon = Ok(inner)

\* C9 as stated: a canonical value is never a JSON string, and applying
\* extract_payload_data to it again returns the same value.
C9_Idempotent ==
    /\ (Normalized /\ canon.ok) => ~is_string(canon.v)
    /\ epc = "reapplied" => again = canon

\* C9 (amended): applying extract_payload_data to a canonical value again
\* returns the same value exactly when that value is neither a JSON string
\* nor an object with a data, payload or message key. One layer is stripped
\* per application, so a canonical value can be a string or carry a wrapper
\* key, and a second application then strips one more layer or fails.
C9_IdempotentOnPlainValues ==
    epc = "reapplied" =>
        (again = canon <=> (~is_string(canon.v) /\ ~HasWrapperKey(canon.v)))

\* an unwrapped object with no wrapper key, returned unchanged the second time
C9_Witness ==
    /\ epc = "reapplied"
    /\ shape.kind = "wrapped"
    /\ shape.form = "str"
    /\ canon = Ok(JObj((Key.id :> JStr(<<"7">>))))
    /\ again = canon

(***************************************************************************)
(* Claims about the typed decode                                            *)
(***************************************************************************)
Delivered == dpc \in {"delivered", "compared"}
Compared == dpc = "compared"

\* the message variant each Topic variant is documented to carry
TopicFamily(t) ==
    CASE t.tag \in {"Balances", "BalanceNetwork", "BalanceAddress"} -> "Balance"
      [] t.tag \in {"TokenBalances", "TokenBalanceNetwork", "TokenBalanceIdentifier",
                    "TokenBalanceAddress"} -> "TokenBalance"
      [] t.tag \in {"TokenPrices", "TokenPriceNetwork", "TokenPriceIdentifier"} -> "TokenPrice"
      [] t.tag \in {"Tokens", "TokenIdentifier", "TokenNetwork", "TokenIssuer"} -> "Token"
      [] t.tag \in {"Transactions", "TransactionNetwork", "TransactionIn",
                    "TransactionOut"} -> "Transaction"

\* C10: whenever parse_message_for_topic succeeds, the message's variant is
\* the one of the topic's family; and two topics of the same family, whatever
\* their parameters, get the same outcome for the same bytes (the two decodes
\* reading the same wall clock, which the fallback builder consults).
C10_VariantByFamily ==
    /\ (Delivered /\ dres.ok) => dres.v.variant = TopicFamily(dtopic)
    /\ (Compared /\ dmres.ok) => dmres.v.variant = TopicFamily(dmate)
    /\ (Compared /\ TopicFamily(dmate) = TopicFamily(dtopic) /\ dmnow = dnow)
            => dmres = dres

\* two TokenBalance topics with different parameters decode a wrapped
\* publication to the same TokenBalance message
C10_Witness ==
    /\ Compared
    /\ dres.ok
    /\ dres.v.variant = "TokenBalance"
    /\ dmate.tag = dtopic.tag
    /\ dmate.args # dtopic.args
    /\ dshape.kind = "wrapped"
    /\ dmnow = dnow
    /\ dmres = dres

(***************************************************************************)
(* Properties of the typed decode                                           *)
(***************************************************************************)
\* the canonical value of the publication: what envelope normalization
\* hands to the match on the topic
Canonical == normalize(dbody)

TransactionTopic == TopicFamily(dtopic) = "Transaction"

\* the handler has just returned (its result is not touched afterwards)
Returning == dpc = "delivered"

\* C11: for a Transaction topic, a canonical value that is a JSON object
\* always decodes to a Transaction message (the empty object and objects with
\* null, missing or malformed members included); the decode fails, with the
\* invalid-format error, only when the canonical value is not an object.
C11_TransactionDecodesEveryObject ==
    LET decided(canonical) ==
            canonical.ok =>
                IF is_object(canonical.v)
                THEN dres.ok /\ dres.v.variant = "Transaction"
                ELSE ~dres.ok /\ dres.err = "InvalidMessageFormat"
    IN  (Returning /\ TransactionTopic) => Bind(Canonical, decided)

\* the empty object, wrapped under data, decoded through the fallback builder
C11_Witness ==
    /\ Delivered /\ TransactionTopic
    /\ dinner = JObj(EmptyMap) /\ dshape.kind = "wrapped"
    /\ Canonical = Ok(JObj(EmptyMap))
    /\ dres.ok /\ dres.v.variant = "Transaction"
    /\ dres.v.payload.id = Str.Unknown

\* the canonical value is rejected by the strict decoder of the topic's family
Rejected(canonical) ==
    canonical.ok /\ ~conforms(Schema[TopicFamily(dtopic)], canonical.v)

\* C12: for a Balance, TokenBalance, TokenPrice or Token topic, a canonical
\* value that fails the strict decode (a missing required member, a wrong
\* type, an unknown enum value, an invalid address, a non-object) makes
\* parse_message_for_topic return the decoder's error: there is no fallback
\* and no message.
C12_StrictFamiliesPropagate ==
    (Returning /\ ~TransactionTopic /\ Bind(Canonical, Rejected)) =>
        ~dres.ok /\ dres.err = "SerializationError"

\* a Balance payload whose address is not an address, on a Balance topic
C12_Witness ==
    /\ Delivered /\ TopicFamily(dtopic) = "Balance"
    /\ dinner = apply_edit(Base.Balance, [key |-> Key.address, kind |-> "bad"])
    /\ Canonical = Ok(dinner)
    /\ Rejected(Ok(dinner))
    /\ ~dres.ok

\* the publication's bytes are not well-formed JSON
Undecodable == dshape.kind \in BrokenKinds \cup {"garbled"}

\* C13: bytes that are not well-formed JSON (no bytes, bytes that are not
\* UTF-8, arbitrary text, JSON cut short) make parse_message_for_topic return
\* an error for every topic, the Transaction topics included: the fallback
\* builder never sees undecodable bytes.
C13_UndecodableBytesFail ==
    (Delivered /\ Undecodable) => ~dres.ok /\ dres.err = "InvalidMessageFormat"

\* a well-formed transaction whose closing brace is cut off, on a
\* Transaction topic
C13_Witness ==
    /\ Delivered /\ TransactionTopic
    /\ dshape.kind = "truncated" /\ dinner = Base.Transaction
    /\ dbody \o <<"}">> = to_string(dinner)
    /\ ~dres.ok

(***************************************************************************)
(* Properties of the fallback transaction builder                           *)
(***************************************************************************)
\* the builder has been applied to a JSON object
BuiltFromObject == fpc \in {"built", "decoded"} /\ is_object(fjson)

\* member key of the input is the JSON string str
IsString(key, str) == has_key(fjson, key) /\ fjson.o[key] = JStr(str)

\* C14: each required field of the fallback payload is resolved from its own
\* member alone: id is the member when it is a JSON string and "unknown"
\* otherwise; network, type and status are the enum value of the member when
\* it is a string of the enum, and Regtest, Unknown and Pending otherwise
\* (absent, null, not a string, not a string of the enum).
C14_RequiredFieldDefaults ==
    BuiltFromObject =>
        /\ fbuilt.ok
        /\ fbuilt.v.id = (IF has_key(fjson, Key.id) /\ is_string(fjson.o[Key.id])
                          THEN fjson.o[Key.id].s ELSE Str.Unknown)
        /\ fbuilt.v.network = (IF IsString(Key.network, Str.MAINNET) THEN "Mainnet"
                               ELSE "Regtest")
        /\ fbuilt.v.type_ =
              (CASE IsString(Key.type, Str.SparkToSpark) -> "SparkToSpark"
                 [] IsString(Key.type, Str.SparkToLightning) -> "SparkToLightning"
                 [] IsString(Key.type, Str.TokenMultiTransfer) -> "TokenMultiTransfer"
                 [] OTHER -> "Unknown")
        /\ fbuilt.v.status =
              (CASE IsString(Key.status, Str.Confirmed) -> "Confirmed"
                 [] IsString(Key.status, Str.Sent) -> "Sent"
                 [] OTHER -> "Pending")

\* a numeric id and an unknown network next to a valid type and status: the
\* first two take their defaults, the other two their parsed values
C14_Witness ==
    /\ BuiltFromObject
    /\ fjson = apply_edit(apply_edit(FullTransaction, [key |-> Key.id, kind |-> "num"]),
                          [key |-> Key.network, kind |-> "bad"])
    /\ fbuilt.ok
    /\ fbuilt.v.id = Str.Unknown /\ fbuilt.v.network = "Regtest"
    /\ fbuilt.v.type_ = "SparkToLightning" /\ fbuilt.v.status = "Confirmed"

\* the Transaction arm has decoded an object that its strict decoder rejects
ArmFellBack ==
    fpc = "decoded" /\ is_object(fjson) /\ ~from_value_transaction(fjson).ok

\* what an optional string field must hold for member key of the input
Copied(key) ==
    IF has_key(fjson, key) /\ is_string(fjson.o[key]) THEN Some(fjson.o[key].s) ELSE None

\* C15: when a transaction object fails the strict decode, each of
\* amount_sats, token_amount, token_address, from_identifier, to_identifier
\* and bitcoin_txid of the resulting payload is Some(s) with the member's
\* exact string s when the member is a JSON string (empty strings and
\* strings that are no address included), and None when the member is absent,
\* null or not a string.
C15_OptionalStringsVerbatim ==
    ArmFellBack =>
        /\ farm.ok /\ farm.v.variant = "Transaction"
        /\ farm.v.payload.amount_sats = Copied(Key.amount_sats)
        /\ farm.v.payload.token_amount = Copied(Key.token_amount)
        /\ farm.v.payload.token_address = Copied(Key.token_address)
        /\ farm.v.payload.from_identifier = Copied(Key.from_identifier)
        /\ farm.v.payload.to_identifier = Copied(Key.to_identifier)
        /\ farm.v.payload.bitcoin_txid = Copied(Key.bitcoin_txid)

\* from_identifier is no address and amount_sats is a number: the first is
\* kept as it is, the second is None, the untouched token_amount is kept
C15_Witness ==
    /\ ArmFellBack
    /\ fjson = apply_edit(apply_edit(FullTransaction,
                                     [key |-> Key.from_identifier, kind |-> "bad"]),
                          [key |-> Key.amount_sats, kind |-> "num"])
    /\ farm.ok
    /\ farm.v.payload.from_identifier = Some(Sample.bad)
    /\ farm.v.payload.amount_sats = None
    /\ farm.v.payload.token_amount = Some(<<"7">>)

\* the 14 member names of the transaction schema
Recognized == DOMAIN Schema.Transaction.req \cup DOMAIN Schema.Transaction.opt

\* the top-level keys of the input that the schema does not name
UnrecognizedKeys == DOMAIN fjson.o \ Recognized

\* C16: token_io_details of the fallback payload is None exactly when the
\* input has no token_io_details key and no top-level key outside the 14
\* recognized names; otherwise it is Some(object) whose key original holds the
\* input's token_io_details value as it is, present iff the input has that
\* key, and whose key unmapped_fields holds exactly the unrecognized
\* top-level keys with their values, present iff there is one.
C16_TokenIoDetails ==
    BuiltFromObject =>
        LET io == fbuilt.v.token_io_details
            hasDetails == has_key(fjson, Key.token_io_details)
        IN  /\ Cardinality(Recognized) = 14
            /\ ~io.some <=> (~hasDetails /\ UnrecognizedKeys = {})
            /\ io.some =>
                /\ DOMAIN io.v \subseteq {Key.original, Key.unmapped_fields}
                /\ Key.original \in DOMAIN io.v <=> hasDetails
                /\ hasDetails => io.v[Key.original] = fjson.o[Key.token_io_details]
                /\ Key.unmapped_fields \in DOMAIN io.v <=> UnrecognizedKeys # {}
                /\ UnrecognizedKeys # {} =>
                       io.v[Key.unmapped_fields] =
                           JObj([k \in UnrecognizedKeys |-> fjson.o[k]])

\* a null token_io_details next to an unknown key data: original holds the
\* null, unmapped_fields holds the key
C16_Witness ==
    /\ BuiltFromObject
    /\ has_key(fjson, Key.token_io_details) /\ fjson.o[Key.token_io_details] = JNull
    /\ UnrecognizedKeys = {Key.data}
    /\ fbuilt.ok /\ fbuilt.v.token_io_details.some
    /\ DOMAIN fbuilt.v.token_io_details.v = {Key.original, Key.unmapped_fields}
    /\ fbuilt.v.token_io_details.v[Key.original] = JNull
    /\ fbuilt.v.token_io_details.v[Key.unmapped_fields] = JObj(Key.data :> fjson.o[Key.data])

\* the input without its member key
Without(key) == JObj([k \in DOMAIN fjson.o \ {key} |-> fjson.o[k]])

\* C17: the fallback builder never silently drops information: the value
\* of every top-level key of the input object can be recovered from the
\* payload (from its typed field, from token_io_details.unmapped_fields or
\* from token_io_details.original), also when a recognized key holds a
\* value of an unexpected type. A value that can be recovered leaves a trace:
\* the payload differs from the one built, at the same reading of the clock,
\* from the input without that key. (Stated for the members that are not
\* null.)
C17_NothingDropped ==
    BuiltFromObject =>
        \A key \in DOMAIN fjson.o :
            fjson.o[key] # JNull =>
                create_fallback_transaction_payload(Without(key), fnow) # fbuilt

(***************************************************************************)
(* Properties of the message accessors                                      *)
(***************************************************************************)
\* the type tag and the network a message decoded for dtopic must report:
\* the tag of the topic's family, and the variant name of the network the
\* publication names (a transaction without a known network is Regtest)
ExpectedAccessors ==
    [type |-> CASE TopicFamily(dtopic) = "Balance" -> "balance"
                [] TopicFamily(dtopic) = "TokenBalance" -> "token_balance"
                [] TopicFamily(dtopic) = "TokenPrice" -> "token_price"
                [] TopicFamily(dtopic) = "Token" -> "token"
                [] TopicFamily(dtopic) = "Transaction" -> "transaction",
     network |-> IF has_key(dinner, Key.network)
                    /\ dinner.o[Key.network] = JStr(Str.MAINNET)
                 THEN "Mainnet" ELSE "Regtest"]

\* a text of the model as a string
RECURSIVE AsString(_)
AsString(s) == IF s = <<>> THEN "" ELSE Head(s) \o AsString(Tail(s))

\* C18: every message has the type tag of its variant (balance,
\* token_balance, token_price, token, transaction), and network() is always
\* Some, the variant name of the payload's network (Mainnet for MAINNET);
\* neither changes by any operation after the message is built.
C18_AccessorsStable ==
    /\ [](Delivered /\ dres.ok =>
            /\ AsString(message_type(dres.v)) = ExpectedAccessors.type
            /\ network(dres.v).some
            /\ AsString(network(dres.v).v) = ExpectedAccessors.network)
    /\ [][Delivered /\ dres.ok =>
            /\ dres'.ok
            /\ message_type(dres'.v) = message_type(dres.v)
            /\ network(dres'.v) = network(dres.v)]_vars

\* the Balance payload of the tests, with network MAINNET, on a Balance topic
C18_Witness ==
    /\ Compared /\ dres.ok
    /\ dinner = Base.Balance /\ dres.v.variant = "Balance"
    /\ AsString(message_type(dres.v)) = "balance"
    /\ network(dres.v) = Some(<<"M", "a", "i", "n", "n", "e", "t">>)

(***************************************************************************)
(* Properties of the subscription's message handler                         *)
(***************************************************************************)
\* the outcomes of decoding publication i for the subscription's topic, over
\* the readings of the clock
Outcomes(i) == {parse_message_for_topic(stopic, inbox[i], now) : now \in Clock}

\* the publications among the first n that decode
Decodable(n) == {i \in 1..n : \E r \in Outcomes(i) : r.ok}

\* C19: the callback is invoked exactly once, with the decoded message and
\* in delivery order, for each publication that decodes, and not at all for
\* one that does not; a failure is only logged, and every later publication
\* is still handled.
C19_CallbackPerDecodedPublication ==
    /\ [](/\ Len(calls) = Cardinality(Decodable(seen))
          /\ Len(logged) = seen - Cardinality(Decodable(seen))
          /\ \A i \in Decodable(seen) :
                Ok(calls[Cardinality(Decodable(i))]) \in Outcomes(i))
    /\ <>(seen = Len(inbox))

\* a balance, then bytes that are not JSON, then a balance again: two
\* calls, one log entry
C19_Witness ==
    /\ stopic = T0("Balances")
    /\ inbox = <<to_string(Base.Balance), BadText, to_string(Base.Balance)>>
    /\ seen = 3
    /\ Len(calls) = 2 /\ calls[1] = calls[2] /\ calls[2].variant = "Balance"
    /\ logged = <<"InvalidMessageFormat">>

(***************************************************************************)
(* Properties of concurrent decodes                                         *)
(***************************************************************************)
\* C20: the decode keeps no state between calls: whatever other
\* invocations ran before an invocation or run interleaved with it, its
\* result is the result of decoding its own topic and bytes alone (at the
\* reading of the clock the invocation took).
C20_NoSharedState ==
    \A i \in Calls :
        cpc[i] = "done" =>
            cres[i] = parse_message_for_topic(cin[i].topic, cin[i].data, cnow[i])

\* a wrapped balance for a Balance topic is decoded while a decode of {} for
\* a Transaction topic is under way; the second finishes after the clock
\* has moved, with the later reading as processed_at
C20_Witness ==
    /\ cin[1] = [topic |-> T0("Balances"), data |-> to_string(JObj(Key.data :> Base.Balance))]
    /\ cin[2] = [topic |-> T0("Transactions"), data |-> to_string(JObj(EmptyMap))]
    /\ cpc[1] = "done" /\ cpc[2] = "done"
    /\ cres[1].ok /\ cres[1].v.variant = "Balance" /\ cnow[1] = ClockStart
    /\ cres[2].ok /\ cnow[2] # ClockStart
    /\ cres[2].v.payload.processed_at = cnow[2]

(***************************************************************************)
(* Properties of the cascade of extract_payload_data                        *)
(***************************************************************************)
\* the value the sender serialized
Sent == Envelope(inner, shape)

\* the first of data, payload, message that the object v has (NoKey if none)
FirstWrapper(v) ==
    IF has_key(v, Key.data) THEN Key.data
    ELSE IF has_key(v, Key.payload) THEN Key.payload
    ELSE IF has_key(v, Key.message) THEN Key.message
    ELSE NoKey

\* the object v reduced to its member k
Only(v, k) == JObj(k :> v.o[k])

\* the step that matched is the wrapper key under which the sender put the
\* payload
KeyMatched == shape.kind = "wrapped" /\ FirstWrapper(Sent) = shape.key

\* C22: normalization is an ordered cascade, first match wins: a top-level
\* string is decoded as a second JSON layer; otherwise the result is that of
\* the first present key among data, payload, message, taken alone (every
\* sibling key removed); otherwise the value is returned unchanged.
C22_OrderedCascade ==
    Normalized =>
        IF is_string(Sent) THEN canon = from_json(Sent.s)
        ELSE IF FirstWrapper(Sent) # NoKey
        THEN canon = extract_payload_data(Only(Sent, FirstWrapper(Sent)))
        ELSE canon = Ok(Sent)

\* {"payload": p, "message": "not json", "type": "not json"}: the payload
\* key wins over message, and the result is p
C22_Witness ==
    /\ epc = "normalized"
    /\ shape.kind = "wrapped"
    /\ shape.key = Key.payload
    /\ shape.others = {Key.message, Key.type}
    /\ shape.form = "obj"
    /\ inner = JObj((Key.id :> JStr(<<"7">>)))
    /\ canon = Ok(inner)

\* the payload is a string, or an object with a wrapper key of its own
Nested == is_string(inner) \/ HasWrapperKey(inner)

\* C23: one layer is stripped and no more: a payload that is itself a
\* string or an object with a data, payload or message key is returned as
\* it is when it was sent as a string (at top level or under the matched
\* key), and an object with such a key is returned as it is when it was
\* the member under the matched key; every call returns a value or an error.
C23_OneLayerOnly ==
    Normalized =>
        /\ canon # NoResult
        /\ (Nested /\ shape.kind = "double") => canon = Ok(inner)
        /\ (Nested /\ KeyMatched /\ shape.form = "str") => canon = Ok(inner)
        /\ (HasWrapperKey(inner) /\ KeyMatched /\ shape.form = "obj") =>
                canon = Ok(inner)

\* {"data": {"data": null, "payload": "7"}} normalized to the inner object,
\* whose own data and payload keys are left alone
C23_Witness ==
    /\ epc = "normalized"
    /\ KeyMatched
    /\ shape.key = Key.data
    /\ shape.form = "obj"
    /\ inner = JObj((Key.data :> JNull) @@ (Key.payload :> JStr(<<"7">>)))
    /\ canon = Ok(inner)

\* the string held by the step that matched: the top-level string, or the
\* string under the first wrapper key
MatchedString ==
    IF is_string(Sent) THEN Some(Sent.s)
    ELSE IF FirstWrapper(Sent) # NoKey /\ is_string(get(Sent, FirstWrapper(Sent)))
    THEN Some(get(Sent, FirstWrapper(Sent)).s)
    ELSE None

\* C24: when the step that matched holds a string that is not well-formed
\* JSON, normalization returns the decode error (SerializationError); it
\* does not go on to a later key and returns neither the string nor the
\* enclosing object.
C24_BadStringIsAnError ==
    (Normalized /\ MatchedString.some /\ ~from_json(MatchedString.v).ok) =>
        canon = Err("SerializationError")

\* {"data": "not json", "payload": p, "message": p}: an error, although
\* payload and message hold a valid payload
C24_Witness ==
    /\ epc = "normalized"
    /\ shape.kind = "wrapped"
    /\ shape.key = Key.data
    /\ shape.others = {Key.payload, Key.message}
    /\ shape.form = "bad"
    /\ inner = JObj((Key.id :> JStr(<<"7">>)))
    /\ canon = Err("SerializationError")

(***************************************************************************)
(* Properties of the timestamps of the fallback builder                     *)
(***************************************************************************)
\* the instants of the two RFC 3339 strings the inputs carry:
\* 2025-08-01T10:00:00Z and 2025-08-01T12:00:01.5+02:00
Instant(s) ==
    IF s = Sample.timestamp THEN Some([secs |-> 1754042400, nanos |-> 0])
    ELSE IF s = Sample.later THEN Some([secs |-> 1754042401, nanos |-> 500000000])
    ELSE None

\* the instant a member of the input stands for: that of its string when the
\* member is an RFC 3339 string, none when it is absent, null, a number or
\* any other string
Stamp(key) ==
    IF key \in DOMAIN fjson.o /\ is_string(fjson.o[key])
    THEN Instant(fjson.o[key].s)
    ELSE None

\* C25: the builder returns a payload for every object; processed_at is
\* the instant of the member when that is an RFC 3339 string and the clock
\* reading of the decode otherwise; updated_at and expired_time are
\* Some(instant) when the member is an RFC 3339 string and None otherwise.
C25_Timestamps ==
    BuiltFromObject =>
        /\ fbuilt.ok
        /\ fbuilt.v.processed_at = unwrap_or(Stamp(Key.processed_at), fnow)
        /\ fbuilt.v.updated_at = Stamp(Key.updated_at)
        /\ fbuilt.v.expired_time = Stamp(Key.expired_time)

\* processed_at sent without an offset and expired_time absent: the clock
\* reading, the instant of updated_at, and None
C25_Witness ==
    /\ BuiltFromObject
    /\ IsString(Key.processed_at, SubSeq(Sample.timestamp, 1, 19))
    /\ Key.expired_time \notin DOMAIN fjson.o
    /\ fnow # ClockStart
    /\ fbuilt.v.processed_at = fnow
    /\ fbuilt.v.updated_at = Some([secs |-> 1754042401, nanos |-> 500000000])
    /\ fbuilt.v.expired_time = None

(***************************************************************************)
(* Properties of the configuration and the client                           *)
(***************************************************************************)
\* the value the last call of the method in the chain gave, or the default
\* when the chain has no call of it
Given(method, default) ==
    LET at == {i \in 1..Len(chain) : chain[i].method = method}
    IN  IF at = {} THEN default
        ELSE chain[CHOOSE i \in at : \A j \in at : j <= i].v

\* C21: new(url) has the given url and the defaults false, 30, true, 5,
\* 1000; after any chain of builder calls, in any order, each field holds
\* the value of the last call of its own method, or its default when that
\* method was not called; a client built from the configuration reports it.
C21_BuilderFrames ==
    /\ cfg = [url |-> chain[1].v,
              use_protobuf |-> Given("with_protobuf", FALSE),
              connection_timeout |-> Given("with_timeout", 30),
              auto_reconnect |-> Given("with_auto_reconnect", TRUE),
              max_reconnect_attempts |-> Given("with_max_reconnect_attempts", 5),
              reconnect_delay |-> Given("with_reconnect_delay", 1000)]
    /\ client.some => client.v.config = cfg

\* new(url).with_reconnect_delay(2000).with_protobuf(true), then a client:
\* the two fields set, the other three at their defaults, the config reported
C21_Witness ==
    /\ Len(chain) = 3
    /\ chain[2].method = "with_reconnect_delay"
    /\ chain[3].method = "with_protobuf"
    /\ chain[3].v
    /\ client.some
    /\ client.v.config = [url |-> "ws://localhost:8000",
                          use_protobuf |-> TRUE,
                          connection_timeout |-> 30,
                          auto_reconnect |-> TRUE,
                          max_reconnect_attempts |-> 5,
                          reconnect_delay |-> 2000]

C27_ReportsSubscriptionState ==
    \A i \in DOMAIN subs :
        subs[i].holder # "dropped" => (is_subscribed(subs[i]) <=> subs[i].active)

\* the wire strings of the handles the manager holds
HeldWires == {as_str(subs[i].topic) : i \in {j \in DOMAIN subs : subs[j].holder = "manager"}}

\* C28: a new manager is empty with len() = 0. In every state each key is
\* the wire string of the topic of the handle stored under it, len() is the
\* number of distinct wire strings held, and is_empty() holds exactly when
\* len() = 0. An add of a handle whose wire string is already a key puts
\* that handle in place of the previous one and leaves len() as it was; get
\* and remove of a string that is no key return None and leave the manager
\* as it was.
C28_ManagerInvariant ==
    /\ is_empty(mgr) /\ len(mgr) = 0
    /\ [](/\ \A k \in DOMAIN mgr : k = as_str(subs[mgr[k]].topic)
          /\ len(mgr) = Cardinality(HeldWires)
          /\ is_empty(mgr) <=> len(mgr) = 0)
    /\ [][\A i \in DOMAIN subs :
            (Add(i) /\ as_str(subs[i].topic) \in DOMAIN mgr) =>
                /\ len(mgr') = len(mgr)
                /\ mgr'[as_str(subs[i].topic)] = i
                /\ mgr[as_str(subs[i].topic)] # i]_vars
    /\ [][\A k \in {as_str(T0("Balances")), as_str(T0("Tokens")),
                   as_str(T1("TransactionNetwork", <<"m">>))} :
            ((Get(k) \/ Remove(k)) /\ k \notin DOMAIN mgr) =>
                ret' = None /\ mgr' = mgr]_vars

\* the third handle, for the same topic as the first, has taken the place
\* of the first in the manager, next to the second; a lookup of a string
\* that is no key has returned None
C28_Witness ==
    /\ subs[1].topic = subs[3].topic
    /\ subs[1].holder = "dropped"
    /\ subs[2].holder = "manager"
    /\ subs[3].holder = "manager"
    /\ len(mgr) = 2
    /\ mgr[as_str(subs[3].topic)] = 3
    /\ ret = None

(***************************************************************************)
(* Properties of publishing and of directly sent transactions               *)
(***************************************************************************)
\* the receiver has decoded the bytes
Received == pres # NoResult

C30_DirectTransactionKeepsUnknownKeys ==
    (Received /\ psrc.v.kind = "raw" /\ TopicFamily(ptopic) = "Transaction") =>
        /\ pres.ok
        /\ pres.v.variant = "Transaction"
        /\ pres.v.payload.id = psrc.v.v.o[Key.id].s
        /\ \A k \in DOMAIN psrc.v.v.o \ mapped_fields :
            /\ pres.v.payload.token_io_details.some
            /\ Key.unmapped_fields \in DOMAIN pres.v.payload.token_io_details.v
            /\ has_key(pres.v.payload.token_io_details.v[Key.unmapped_fields], k)
            /\ pres.v.payload.token_io_details.v[Key.unmapped_fields].o[k] = psrc.v.v.o[k]

====
